---- MODULE Spec2Model ----
(***************************************************************************)
(* Consumer-group operations of the kafka-admin-cli client                  *)
(* (internal/kafka consumer-group file): GetConsumerGroup,                  *)
(* DeleteConsumerGroup, handleConsumerGroupError and the per-partition lag  *)
(* derivation, modelled as state machines over the broker replies.          *)
(***************************************************************************)
EXTENDS Integers, Sequences, FiniteSets, TLC

(***************************************************************************)
(* Bounds of the model                                                      *)
(***************************************************************************)
\* largest number of members in one describe reply
MaxMembers == 2
\* largest size of one describe reply: every member counts as the partitions
\* of its assignment, and as one when it has none
MaxAssigned == 2
\* partition ids are 0..MaxPartition
MaxPartition == 1
\* the offset replies of an inspection carry -1 (no offset) or MaxOffset
MaxOffset == 1
\* width, in bits, at which the int64 offsets are modelled (two's complement)
IntBits == 4
\* broker status codes are -1..MaxErrorCode
MaxErrorCode == 99
\* largest number of group entries in one list reply
MaxGroups == 4

\* largest number of members of a group that is inspected twice
MaxRepeated == 1

(***************************************************************************)
(* Input domains                                                            *)
(***************************************************************************)
GroupIDs == {"g1", "g2"}
TopicNames == <<"t1", "t2">>
Topics == {TopicNames[i] : i \in 1..Len(TopicNames)}
PartitionIds == 0..MaxPartition
\* the i-th member of a describe reply reports the i-th client id and host
ClientIDs == <<"c1", "c2", "c3", "c4">>
ClientHosts == <<"/10.0.0.1", "/10.0.0.2", "/10.0.0.3", "/10.0.0.4">>
GroupStates == {"Stable"}
OffsetSamples == {-1, MaxOffset}
ErrorCodes == (-1)..MaxErrorCode
DescribeCodes == {0, 7, 15, 24, 25, 38}

(***************************************************************************)
(* int64 arithmetic                                                         *)
(***************************************************************************)
MinInt64 == -(2 ^ (IntBits - 1))
MaxInt64 == (2 ^ (IntBits - 1)) - 1
Int64 == MinInt64..MaxInt64
\* Go's int64 subtraction wraps around silently
Sub64(a, b) == ((a - b - MinInt64) % (2 ^ IntBits)) + MinInt64

(***************************************************************************)
(* Strings that are computed are sequences of characters                    *)
(***************************************************************************)
Digits == <<"0", "1", "2", "3", "4", "5", "6", "7", "8", "9">>
EmptyDisplay == <<"E", "m", "p", "t", "y">>
AtLatestDisplay == <<"A", "t", " ", "l", "a", "t", "e", "s", "t">>

RECURSIVE FormatNat(_)
FormatNat(n) ==
    IF n < 10 THEN <<Digits[n + 1]>>
    ELSE Append(FormatNat(n \div 10), Digits[(n % 10) + 1])

\* fmt.Sprintf("%d", n)
FormatInt(n) == IF n < 0 THEN <<"-">> \o FormatNat(-n) ELSE FormatNat(n)

(***************************************************************************)
(* PartitionOffset: the lag derivation of GetConsumerGroup                  *)
(***************************************************************************)
CalcPartitionOffset(current, end) ==
    IF end = -1
    THEN IF current <= 0
         THEN [Current |-> current, End |-> end, Lag |-> 0,
               IsEmpty |-> TRUE, EndDisplay |-> EmptyDisplay]
         ELSE [Current |-> current, End |-> end, Lag |-> 0,
               IsEmpty |-> FALSE, EndDisplay |-> AtLatestDisplay]
    ELSE IF current < 0
         THEN [Current |-> current, End |-> end, Lag |-> end,
               IsEmpty |-> FALSE, EndDisplay |-> FormatInt(end)]
         ELSE LET lag == Sub64(end, current)
              IN  [Current |-> current, End |-> end,
                   Lag |-> IF lag < 0 THEN 0 ELSE lag,
                   IsEmpty |-> FALSE, EndDisplay |-> FormatInt(end)]

(***************************************************************************)
(* Errors: a message, the group id and the raw code it is formatted with    *)
(***************************************************************************)
NoError == [msg |-> "", group |-> "", code |-> 0]
Errorf(m, g, c) == [msg |-> m, group |-> g, code |-> c]

\* handleConsumerGroupError with the case of code 15 lost to the case of code 7
handleConsumerGroupErrorNo15(errorCode) ==
    IF errorCode # 0
    THEN CASE errorCode \in {7, 15} -> NoError
           [] errorCode = 24 -> Errorf("invalid consumer group id", "", 0)
           [] OTHER -> Errorf("failed to process consumer group request: error code", "", errorCode)
    ELSE NoError

\* handleConsumerGroupError with the cases of 15 and 24 merged
handleConsumerGroupError24As15(errorCode) ==
    IF errorCode # 0
    THEN CASE errorCode = 7 -> NoError
           [] errorCode \in {15, 24} -> Errorf("consumer group not found", "", 0)
           [] OTHER -> Errorf("failed to process consumer group request: error code", "", errorCode)
    ELSE NoError

\* lines 253-267
handleConsumerGroupError(errorCode) ==
    IF errorCode # 0
    THEN CASE errorCode = 7 -> NoError
           [] errorCode = 15 -> Errorf("consumer group not found", "", 0)
           [] errorCode = 24 -> Errorf("invalid consumer group id", "", 0)
           [] OTHER -> Errorf("failed to process consumer group request: error code", "", errorCode)
    ELSE NoError

(***************************************************************************)
(* Maps (Go map[K]V) are functions with a finite domain                     *)
(***************************************************************************)
EmptyMap == << >>
MapPut(m, k, v) == [x \in (DOMAIN m) \cup {k} |-> IF x = k THEN v ELSE m[x]]
MapGet(m, k, zero) == IF k \in DOMAIN m THEN m[k] ELSE zero

(***************************************************************************)
(* Assignment payload.  The payload is a sequence of primitives (one        *)
(* element per fixed-width or length-prefixed field; a topic name is the    *)
(* index of the name in TopicNames): version, topic count, then per topic   *)
(* the name, the partition count and the partition ids, then the user data. *)
(***************************************************************************)
Prefix(s, k) == SubSeq(s, 1, k)

RECURSIVE Flatten(_)
Flatten(ss) == IF ss = << >> THEN << >> ELSE Head(ss) \o Flatten(Tail(ss))

TopicIndex(t) == CHOOSE i \in 1..Len(TopicNames) : TopicNames[i] = t

\* what a consumer writes for an assignment (a sequence of topic entries)
Encode(assignment) ==
    <<0, Len(assignment)>>
    \o Flatten([i \in 1..Len(assignment) |->
                  <<TopicIndex(assignment[i].Topic), Len(assignment[i].Partitions)>>
                  \o assignment[i].Partitions])
    \o <<0>>

\* n int32 values from position pos on
RECURSIVE ReadInt32s(_, _, _)
ReadInt32s(src, pos, n) ==
    IF n <= 0 THEN [ok |-> TRUE, pos |-> pos, val |-> << >>]
    ELSE IF pos > Len(src) THEN [ok |-> FALSE, pos |-> pos, val |-> << >>]
    ELSE LET r == ReadInt32s(src, pos + 1, n - 1)
         IN  [ok |-> r.ok, pos |-> r.pos, val |-> <<src[pos]>> \o r.val]

\* n topic entries (name, partition count, partitions) from position pos on
RECURSIVE ReadTopics(_, _, _)
ReadTopics(src, pos, n) ==
    IF n <= 0 THEN [ok |-> TRUE, pos |-> pos, val |-> << >>]
    ELSE IF pos + 1 > Len(src) THEN [ok |-> FALSE, pos |-> pos, val |-> << >>]
    ELSE LET parts == ReadInt32s(src, pos + 2, src[pos + 1])
             rest == ReadTopics(src, parts.pos, n - 1)
         IN  IF ~parts.ok THEN [ok |-> FALSE, pos |-> parts.pos, val |-> << >>]
             ELSE [ok |-> rest.ok, pos |-> rest.pos,
                   val |-> <<[Topic |-> TopicNames[src[pos]],
                              Partitions |-> parts.val]>> \o rest.val]

\* variant: a decoder that returns the topics it read when the user data is
\* missing
ReadFromWithoutUserData(src) ==
    IF Len(src) < 2 THEN [ok |-> FALSE, Topics |-> << >>]
    ELSE LET topics == ReadTopics(src, 3, src[2])
         IN  IF topics.ok
             THEN [ok |-> TRUE, Topics |-> topics.val]
             ELSE [ok |-> FALSE, Topics |-> << >>]

\* variant: a decoder that wants at least one topic entry
ReadFromNeedsTopic(src) ==
    IF Len(src) < 2 \/ src[2] = 0 THEN [ok |-> FALSE, Topics |-> << >>]
    ELSE LET topics == ReadTopics(src, 3, src[2])
         IN  IF topics.ok /\ topics.pos <= Len(src)
             THEN [ok |-> TRUE, Topics |-> topics.val]
             ELSE [ok |-> FALSE, Topics |-> << >>]

\* kmsg.ConsumerMemberAssignment.ReadFrom: version, topics, user data; an
\* error when the buffer is exhausted before the last field is read
ReadFrom(src) ==
    IF Len(src) < 2 THEN [ok |-> FALSE, Topics |-> << >>]
    ELSE LET topics == ReadTopics(src, 3, src[2])
         IN  IF topics.ok /\ topics.pos <= Len(src)
             THEN [ok |-> TRUE, Topics |-> topics.val]
             ELSE [ok |-> FALSE, Topics |-> << >>]

(***************************************************************************)
(* Inputs of one inspection                                                 *)
(***************************************************************************)
\* partition lists of one topic entry: at most b ids, ascending, none twice
PartSeqs(b) ==
    {ps \in UNION {[1..n -> PartitionIds] : n \in 0..b} :
        \A i, j \in 1..Len(ps) : i < j => ps[i] < ps[j]}
Entries(b) == [Topic : Topics, Partitions : PartSeqs(b)]

\* size of an assignment: its partitions, a topic entry without partitions
\* counting as one
Max(a, b) == IF a >= b THEN a ELSE b
RECURSIVE TotalPartitions(_)
TotalPartitions(entries) ==
    IF entries = << >> THEN 0
    ELSE Max(1, Len(Head(entries).Partitions)) + TotalPartitions(Tail(entries))

\* assignments of at most b partitions, every topic at most once, in name order
Assignments(b) ==
    {a \in UNION {[1..n -> Entries(b)] : n \in 0..Len(TopicNames)} :
        /\ TotalPartitions(a) <= b
        /\ \A i, j \in 1..Len(a) :
              i < j => TopicIndex(a[i].Topic) < TopicIndex(a[j].Topic)}


NilBytes == [isNil |-> TRUE, bytes |-> << >>]
Bytes(b) == [isNil |-> FALSE, bytes |-> b]

\* what a payload is, by the way it was produced: absent, a complete encoding
\* of an assignment, or a truncation of one
AllAssignments == Assignments(MaxAssigned)

\* the well-formed payloads and all their truncations, each with the size of
\* the assignment it was cut from
SizedPayloads ==
    UNION {{<<Prefix(Encode(a), k), TotalPartitions(a)>> : k \in 0..Len(Encode(a))} :
             a \in AllAssignments}

\* size of the members read so far
RECURSIVE Assigned(_)
Assigned(rep) ==
    IF rep = << >> THEN 0
    ELSE Max(1, TotalPartitions(Head(rep).Topics)) + Assigned(Tail(rep))
Encoded == {<<Encode(a), a>> : a \in AllAssignments}
Written(payload) ==
    IF \E e \in Encoded : payload.bytes = e[1]
    THEN (CHOOSE e \in Encoded : payload.bytes = e[1])[2]
    ELSE << >>
PayloadKind(payload) ==
    IF payload.isNil THEN "nil"
    ELSE IF \E e \in Encoded : payload.bytes = e[1]
    THEN "complete"
    ELSE "truncated"

\* every payload a member may carry, with what it is and the size it counts as
Payloads ==
    {[MemberAssignment |-> NilBytes, kind |-> "nil", Topics |-> << >>, size |-> 0]}
    \cup {[MemberAssignment |-> Bytes(q[1]), kind |-> PayloadKind(Bytes(q[1])),
           Topics |-> Written(Bytes(q[1])), size |-> q[2]] : q \in SizedPayloads}

\* the i-th member a describe reply may carry when the reply may still grow
\* by b, together with what its payload is
MemberInputs(i, b) ==
    {[member |-> [ClientID |-> ClientIDs[i], ClientHost |-> ClientHosts[i],
                  MemberAssignment |-> p.MemberAssignment],
      kind |-> p.kind, Topics |-> p.Topics] : p \in {x \in Payloads : x.size <= b}}

\* a describe reply: transport error, no group entry, or one group entry
DescribeReplies ==
    {[err |-> TRUE, Groups |-> << >>], [err |-> FALSE, Groups |-> << >>]}
    \cup {[err |-> FALSE,
           Groups |-> <<[ErrorCode |-> c, State |-> s, NumMembers |-> n]>>] :
             c \in DescribeCodes, s \in GroupStates,
             n \in {m \in 0..MaxMembers : m <= MaxAssigned}}

\* an offset reply for the requested partitions ps: transport error, no topic
\* entry, or one topic entry with at most Len(ps) partition entries
OffsetReplies(ps) ==
    {[err |-> TRUE, Topics |-> << >>], [err |-> FALSE, Topics |-> << >>]}
    \cup UNION {{[err |-> FALSE,
                  Topics |-> <<[Partitions |->
                      [i \in 1..m |-> [Partition |-> ps[i], Offset |-> v[i]]]]>>] :
                    v \in [1..m -> OffsetSamples]} : m \in 0..Len(ps)}

NoResp == [err |-> FALSE, Topics |-> << >>]

(***************************************************************************)
(* GetConsumerGroup: the computations between the broker calls              *)
(***************************************************************************)
NilDetails == [nil |-> TRUE, State |-> "", Members |-> << >>, Offsets |-> EmptyMap]
Details(state, mems, offs) ==
    [nil |-> FALSE, State |-> state, Members |-> mems, Offsets |-> offs]

\* lines 87-90: record the topics of one decoded assignment
RECURSIVE RecordTopics(_, _, _, _)
RecordTopics(topics, i, assignments, tp) ==
    IF i > Len(topics) THEN [assignments |-> assignments, topicPartitions |-> tp]
    ELSE RecordTopics(topics, i + 1,
                      MapPut(assignments, topics[i].Topic, topics[i].Partitions),
                      MapPut(tp, topics[i].Topic,
                             MapGet(tp, topics[i].Topic, << >>) \o topics[i].Partitions))

\* a member loop in which a failed decode discards what was collected
ParseMemberStepAbort(member, mems, tp) ==
    IF member.MemberAssignment.isNil
    THEN [members |-> Append(mems, [ClientID |-> member.ClientID,
                                    ClientHost |-> member.ClientHost,
                                    Assignments |-> EmptyMap]),
          topicPartitions |-> tp]
    ELSE LET memberAssignment == ReadFrom(member.MemberAssignment.bytes)
         IN  IF ~memberAssignment.ok
             THEN [members |-> << >>, topicPartitions |-> EmptyMap]
             ELSE LET r == RecordTopics(memberAssignment.Topics, 1, EmptyMap, tp)
                  IN  [members |-> Append(mems, [ClientID |-> member.ClientID,
                                                 ClientHost |-> member.ClientHost,
                                                 Assignments |-> r.assignments]),
                       topicPartitions |-> r.topicPartitions]

\* lines 77-98: one iteration of the member loop
ParseMemberStep(member, mems, tp) ==
    IF member.MemberAssignment.isNil
    THEN [members |-> Append(mems, [ClientID |-> member.ClientID,
                                    ClientHost |-> member.ClientHost,
                                    Assignments |-> EmptyMap]),
          topicPartitions |-> tp]
    ELSE LET memberAssignment == ReadFrom(member.MemberAssignment.bytes)
         IN  IF ~memberAssignment.ok
             THEN [members |-> mems, topicPartitions |-> tp]
             ELSE LET r == RecordTopics(memberAssignment.Topics, 1, EmptyMap, tp)
                  IN  [members |-> Append(mems, [ClientID |-> member.ClientID,
                                                 ClientHost |-> member.ClientHost,
                                                 Assignments |-> r.assignments]),
                       topicPartitions |-> r.topicPartitions]

\* a failed request of topic t that leaves an empty entry of t behind
SkipTopicKeepsEntry(offs, t) == MapPut(offs, t, EmptyMap)
\* variant: a failed request discards the topics collected so far
SkipTopicDropsAll(offs, t) == EmptyMap

\* lines 111-113 and 132-134: a failed request skips the topic; the offsets
\* map is as it was
SkipTopic(offs, t) == offs

\* variant: the end offset is looked up by the partition id of the entry
RECURSIVE PairOffsetsById(_, _, _, _, _)
PairOffsetsById(partitions, i, oResp, eResp, acc) ==
    IF i > Len(partitions) THEN [panic |-> FALSE, val |-> acc]
    ELSE IF \/ Len(oResp.Topics) = 0
            \/ i > Len(oResp.Topics[1].Partitions)
            \/ Len(eResp.Topics) = 0
            \/ \A k \in 1..Len(eResp.Topics[1].Partitions) :
                  eResp.Topics[1].Partitions[k].Partition # partitions[i]
         THEN [panic |-> TRUE, val |-> acc]
         ELSE PairOffsetsById(partitions, i + 1, oResp, eResp,
                  MapPut(acc, partitions[i],
                         CalcPartitionOffset(
                             oResp.Topics[1].Partitions[i].Offset,
                             eResp.Topics[1].Partitions[
                                 CHOOSE k \in 1..Len(eResp.Topics[1].Partitions) :
                                     eResp.Topics[1].Partitions[k].Partition
                                         = partitions[i]].Offset)))

\* lines 136-181: pair the two replies by position; indexing an entry a reply
\* does not have panics
RECURSIVE PairOffsets(_, _, _, _, _)
PairOffsets(partitions, i, oResp, eResp, acc) ==
    IF i > Len(partitions) THEN [panic |-> FALSE, val |-> acc]
    ELSE IF \/ Len(oResp.Topics) = 0
            \/ i > Len(oResp.Topics[1].Partitions)
            \/ Len(eResp.Topics) = 0
            \/ i > Len(eResp.Topics[1].Partitions)
         THEN [panic |-> TRUE, val |-> acc]
         ELSE PairOffsets(partitions, i + 1, oResp, eResp,
                  MapPut(acc, partitions[i],
                         CalcPartitionOffset(oResp.Topics[1].Partitions[i].Offset,
                                             eResp.Topics[1].Partitions[i].Offset)))



(***************************************************************************)
(* DeleteConsumerGroup                                                      *)
(***************************************************************************)
\* a delete reply: transport error, no group entry, or one group entry
DeleteReplies ==
    {[err |-> TRUE, Groups |-> << >>], [err |-> FALSE, Groups |-> << >>]}
    \cup {[err |-> FALSE, Groups |-> <<[ErrorCode |-> c]>>] : c \in ErrorCodes}

NoDeleteReply == [err |-> FALSE, Groups |-> << >>]

\* DeleteResult without the case of code 25
DeleteResultNo25(g, resp) ==
    IF resp.err THEN Errorf("failed to delete consumer group", "", 0)
    ELSE IF Len(resp.Groups) > 0 /\ resp.Groups[1].ErrorCode # 0
    THEN CASE resp.Groups[1].ErrorCode \in {7, 25} -> NoError
           [] resp.Groups[1].ErrorCode = 15 -> Errorf("consumer group not found", g, 0)
           [] resp.Groups[1].ErrorCode = 24 -> Errorf("invalid consumer group id", g, 0)
           [] OTHER -> Errorf("failed to delete consumer group: error code", "",
                              resp.Groups[1].ErrorCode)
    ELSE NoError

\* lines 228-248: the error DeleteConsumerGroup returns for a reply
DeleteResult(g, resp) ==
    IF resp.err THEN Errorf("failed to delete consumer group", "", 0)
    ELSE IF Len(resp.Groups) > 0 /\ resp.Groups[1].ErrorCode # 0
    THEN CASE resp.Groups[1].ErrorCode = 7 -> NoError
           [] resp.Groups[1].ErrorCode = 15 -> Errorf("consumer group not found", g, 0)
           [] resp.Groups[1].ErrorCode = 24 -> Errorf("invalid consumer group id", g, 0)
           [] resp.Groups[1].ErrorCode = 25 -> Errorf("consumer group is not empty", g, 0)
           [] OTHER -> Errorf("failed to delete consumer group: error code", "",
                              resp.Groups[1].ErrorCode)
    ELSE NoError

(***************************************************************************)
(* SetConsumerGroupOffsets                                                  *)
(***************************************************************************)
\* arguments of a commit: partition and offset are signed and unchecked
CommitPartitions == (-1)..MaxPartition
CommitOffsets == (-2)..MaxOffset

\* variant: the request also names the next partition
CommitRequestTwoPartitions(g, t, p, o) ==
    [api |-> "OffsetCommit", Group |-> g,
     Topics |-> <<[Topic |-> t,
                   Partitions |-> <<[Partition |-> p, Offset |-> o],
                                    [Partition |-> p + 1, Offset |-> o]>>]>>]

\* lines 195-204: the commit request
CommitRequest(g, t, p, o) ==
    [api |-> "OffsetCommit", Group |-> g,
     Topics |-> <<[Topic |-> t,
                   Partitions |-> <<[Partition |-> p, Offset |-> o]>>]>>]

\* a commit reply: transport error, no topic entry, a topic entry without
\* partition entry, or a topic entry whose first partition entry has a code
CommitReplies ==
    {[err |-> TRUE, Topics |-> << >>], [err |-> FALSE, Topics |-> << >>],
     [err |-> FALSE, Topics |-> <<[Partitions |-> << >>]>>]}
    \cup {[err |-> FALSE, Topics |-> <<[Partitions |-> <<[ErrorCode |-> c]>>]>>] :
             c \in ErrorCodes}

\* variant: a reply without status code is an error
CommitResultNeedsStatus(resp) ==
    IF resp.err THEN Errorf("failed to commit offset", "", 0)
    ELSE IF Len(resp.Topics) > 0 /\ Len(resp.Topics[1].Partitions) > 0
    THEN LET errorCode == resp.Topics[1].Partitions[1].ErrorCode
         IN  IF errorCode # 0 THEN handleConsumerGroupError(errorCode)
             ELSE NoError
    ELSE Errorf("failed to commit offset", "", 0)

\* a commit that reads the status code but returns success whatever it is
CommitResultDropsCode(resp) ==
    IF resp.err THEN Errorf("failed to commit offset", "", 0)
    ELSE NoError

\* lines 206-218: the error SetConsumerGroupOffsets returns for a reply
CommitResult(resp) ==
    IF resp.err THEN Errorf("failed to commit offset", "", 0)
    ELSE IF Len(resp.Topics) > 0 /\ Len(resp.Topics[1].Partitions) > 0
    THEN LET errorCode == resp.Topics[1].Partitions[1].ErrorCode
         IN  IF errorCode # 0 THEN handleConsumerGroupError(errorCode)
             ELSE NoError
    ELSE NoError

(***************************************************************************)
(* ListConsumerGroups                                                       *)
(***************************************************************************)
\* group ids a list reply may carry, in any order and more than once
ListedIDs == GroupIDs \cup {"g3"}

\* line 38: the list request, without filter
ListRequest == [api |-> "ListGroups", StatesFilter |-> << >>]

\* a list reply: transport error, or at most MaxGroups group entries
ListReplies ==
    {[err |-> TRUE, Groups |-> << >>]}
    \cup {[err |-> FALSE, Groups |-> gs] :
             gs \in UNION {[1..n -> [Group : ListedIDs]] : n \in 0..MaxGroups}}

\* a loop that leaves out the ids it has already collected
RECURSIVE CollectGroupsOnce(_, _, _)
CollectGroupsOnce(respGroups, i, groups) ==
    IF i > Len(respGroups) THEN groups
    ELSE CollectGroupsOnce(respGroups, i + 1,
             IF \E k \in 1..Len(groups) : groups[k] = respGroups[i].Group
             THEN groups
             ELSE Append(groups, respGroups[i].Group))

\* lines 44-47: append the id of every group entry, in the order of the reply
RECURSIVE CollectGroups(_, _, _)
CollectGroups(respGroups, i, groups) ==
    IF i > Len(respGroups) THEN groups
    ELSE CollectGroups(respGroups, i + 1, Append(groups, respGroups[i].Group))

\* lines 39-48: the pair (groups, err) ListConsumerGroups returns for a reply
ListResult(resp) ==
    IF resp.err
    THEN [groups |-> << >>, err |-> Errorf("failed to list consumer groups", "", 0)]
    ELSE [groups |-> CollectGroups(resp.Groups, 1, << >>), err |-> NoError]

(***************************************************************************)
(* State                                                                    *)
(***************************************************************************)
VARIABLES
    pc,               \* position of the GetConsumerGroup call
    ctx,              \* the caller's context: "live" or "cancelled"
    groupID,          \* argument of the call
    group,            \* descResp.Groups[0]: ErrorCode, State, number of members
    members,          \* members collected so far
    topicPartitions,  \* topic -> partitions, appended per member
    todo,             \* topics the offsets loop has not visited yet
    topic,            \* topic of the current iteration of the offsets loop
    offsetResp,       \* committed-offset reply of the current iteration
    offsets,          \* topic -> partition -> PartitionOffset
    ret,              \* the returned pair (details, err)
    requests,         \* history: the requests sent, in order
    reported,         \* history: the members the describe reply carried so far
    cancelHit,        \* history: a request was made on a cancelled context
    first,            \* history: the call before this one, when it is repeated
    calc,             \* one partition entry of the pairing loop: input and result
    del,              \* a DeleteConsumerGroup call: argument, reply and result
    call              \* a call of another operation: arguments, requests sent,
                      \* replies and result

inspectVars == <<pc, ctx, groupID, group, members, topicPartitions, todo, topic,
                 offsetResp, offsets, ret, requests, reported, cancelHit, first>>
moreVars == <<call>>
otherThanInspect == <<calc, del, moreVars>>
vars == <<inspectVars, calc, del, moreVars>>

NoGroup == [ErrorCode |-> 0, State |-> "", NumMembers |-> 0]

\* number of entries a reply carries (groups of a describe reply, partitions
\* of the topic entry of an offset reply); -1 without reply or topic entry
GroupEntries(reply) == IF reply.err THEN -1 ELSE Len(reply.Groups)
PartitionEntries(reply) ==
    IF reply.err \/ Len(reply.Topics) = 0 THEN -1
    ELSE Len(reply.Topics[1].Partitions)

Request(api, t, ps, ok, n) ==
    [api |-> api, group |-> groupID, topic |-> t, partitions |-> ps,
     ok |-> ok, entries |-> n]

NoCalc == [pc |-> "idle", current |-> 0, end |-> 0,
           po |-> CalcPartitionOffset(0, 0)]
NoDelete == [pc |-> "idle", groupID |-> "", reply |-> NoDeleteReply,
             err |-> NoError]
NoCall == [op |-> "", pc |-> "idle"]

\* the history of a call that is to be repeated: round 0 when it is not, round
\* 1 while the replies of the first call are logged, round 2 while the second
\* call gets them again
NoFirst == [round |-> 0, log |-> << >>]
Logged(api, t, reply) ==
    IF first.round = 1
    THEN [first EXCEPT !.log = Append(@, [api |-> api, topic |-> t, reply |-> reply])]
    ELSE first
\* in round 2 a request the first call made gets the reply the first call got
Replays(api, t, reply) ==
    first.round = 2 =>
        \A i \in 1..Len(first.log) :
            (first.log[i].api = api /\ first.log[i].topic = t) =>
                first.log[i].reply = reply
\* ... and the describe reply carries the same members (a member with a
\* truncated payload again with a truncated one)
ReplaysMember(i, entry) ==
    first.round = 2 => (i <= Len(first.reported) /\ first.reported[i] = entry)
MoreIdle == call = NoCall

Init ==
    /\ calc = NoCalc
    /\ del = NoDelete
    /\ MoreIdle
    /\ pc = "describe"
    /\ ctx = "live"
    /\ first = NoFirst
    /\ groupID \in GroupIDs
    /\ group = NoGroup
    /\ members = << >>
    /\ topicPartitions = EmptyMap
    /\ todo = {}
    /\ topic = ""
    /\ offsetResp = NoResp
    /\ offsets = EmptyMap
    /\ ret = [details |-> NilDetails, err |-> NoError]
    /\ requests = << >>
    /\ reported = << >>
    /\ cancelHit = FALSE

\* variant: the loop ends after its first iteration
RemainingNone(rest, t) == {}

\* variant: a topic stays in the loop after its iteration
RemainingRetried(rest, t) == rest

\* line 102: the range loop visits every key of topicPartitions once; the
\* topics left after the iteration of topic t
Remaining(rest, t) == rest \ {t}

\* return details, err
Return(details, err) ==
    /\ pc' = "done"
    /\ ret' = [details |-> details, err |-> err]

\* lines 100-102 and 184-188: enter the offsets loop, or return the snapshot
\* when no topic is left
LoopOrReturn(mems, rest, offs) ==
    IF rest = {}
    THEN Return(Details(group'.State, mems, offs), NoError)
    ELSE pc' = "offsets" /\ ret' = ret

\* the group ids the broker listed in the list call that came before
Listed ==
    IF call.op = "ListConsumerGroups" /\ call.pc = "done" /\ ~call.reply.err
    THEN {call.reply.Groups[i].Group : i \in 1..Len(call.reply.Groups)}
    ELSE {}

\* the describe replies of a cluster nothing happens to after it listed its
\* groups: a listed group is described by one entry (here a group without
\* members) whose status is not 15, any other group is reported as absent
ListedDescribeReplies(g) ==
    {[err |-> TRUE, Groups |-> << >>]}
    \cup (IF g \in Listed
          THEN {[err |-> FALSE,
                 Groups |-> <<[ErrorCode |-> c, State |-> st, NumMembers |-> 0]>>] :
                   c \in DescribeCodes \ {15}, st \in GroupStates}
          ELSE {[err |-> FALSE, Groups |-> << >>]}
               \cup {[err |-> FALSE,
                      Groups |-> <<[ErrorCode |-> 15, State |-> st, NumMembers |-> 0]>>] :
                        st \in GroupStates})

\* the describe replies group g can get: any, unless a list call came before
DescribeRepliesOf(g) ==
    IF call.op = "ListConsumerGroups" /\ call.pc = "done"
    THEN ListedDescribeReplies(g)
    ELSE IF first.round = 0 THEN DescribeReplies
    ELSE {r \in DescribeReplies :
            Len(r.Groups) > 0 => r.Groups[1].NumMembers <= MaxRepeated}

\* the offset replies a request for the partitions ps can get: any; when the
\* call is to be repeated, a transport error or one entry per partition
OffsetRepliesOf(ps) ==
    IF first.round = 0 THEN OffsetReplies(ps)
    ELSE {r \in OffsetReplies(ps) : r.err \/ PartitionEntries(r) = Len(ps)}

\* lines 56-71: the describe request and the checks of its reply
DescribeGroup ==
    /\ pc = "describe"
    /\ \E reply \in DescribeRepliesOf(groupID) :
        /\ ctx = "cancelled" => reply.err
        /\ Replays("DescribeGroups", "", reply)
        /\ first' = Logged("DescribeGroups", "", reply)
        /\ requests' = Append(requests, Request("DescribeGroups", "", << >>, ~reply.err,
                                              GroupEntries(reply)))
        /\ cancelHit' = (cancelHit \/ ctx = "cancelled")
        /\ IF reply.err
           THEN /\ Return(NilDetails, Errorf("failed to describe consumer group", "", 0))
                /\ group' = group
           ELSE IF Len(reply.Groups) = 0
           THEN /\ Return(NilDetails, Errorf("group not found", groupID, 0))
                /\ group' = group
           ELSE IF reply.Groups[1].ErrorCode # 0
           THEN /\ Return(NilDetails, handleConsumerGroupError(reply.Groups[1].ErrorCode))
                /\ group' = reply.Groups[1]
           ELSE /\ group' = reply.Groups[1]
                /\ IF reply.Groups[1].NumMembers = 0
                   THEN Return(Details(reply.Groups[1].State, << >>, EmptyMap), NoError)
                   ELSE pc' = "members" /\ ret' = ret
    /\ UNCHANGED <<ctx, groupID, members, topicPartitions, todo, topic,
                   offsetResp, offsets, reported>>
    /\ UNCHANGED otherThanInspect

\* lines 77-98: one member of the reply; after the last one the offsets loop starts
ParseMember ==
    /\ pc = "members"
    /\ \E in \in MemberInputs(Len(reported) + 1,
                             MaxAssigned - Assigned(reported)
                                 - (group.NumMembers - Len(reported) - 1)) :
        LET member == in.member
            r == ParseMemberStep(member, members, topicPartitions)
            entry == [ClientID |-> member.ClientID,
                      ClientHost |-> member.ClientHost,
                      kind |-> in.kind,
                      Topics |-> in.Topics]
        IN  /\ ReplaysMember(Len(reported) + 1, entry)
            /\ members' = r.members
            /\ topicPartitions' = r.topicPartitions
            /\ reported' = Append(reported, entry)
            /\ group' = group
            /\ IF Len(reported) + 1 < group.NumMembers
               THEN pc' = "members" /\ ret' = ret /\ todo' = todo
               ELSE /\ todo' = DOMAIN r.topicPartitions
                    /\ LoopOrReturn(r.members, DOMAIN r.topicPartitions, offsets)
    /\ UNCHANGED <<ctx, groupID, topic, offsetResp, offsets, requests, cancelHit,
                   first>>
    /\ UNCHANGED otherThanInspect

\* lines 102-113: the committed-offset request of one topic
OffsetFetch ==
    /\ pc = "offsets"
    /\ \E t \in todo :
        \E reply \in OffsetRepliesOf(topicPartitions[t]) :
            /\ ctx = "cancelled" => reply.err
            /\ Replays("OffsetFetch", t, reply)
            /\ first' = Logged("OffsetFetch", t, reply)
            /\ requests' = Append(requests,
                                  Request("OffsetFetch", t, topicPartitions[t], ~reply.err,
                                          PartitionEntries(reply)))
            /\ cancelHit' = (cancelHit \/ ctx = "cancelled")
            /\ group' = group
            /\ IF reply.err
               THEN /\ todo' = Remaining(todo, t)
                    /\ offsets' = SkipTopic(offsets, t)
                    /\ LoopOrReturn(members, Remaining(todo, t), SkipTopic(offsets, t))
                    /\ UNCHANGED <<topic, offsetResp>>
               ELSE /\ pc' = "listOffsets"
                    /\ topic' = t
                    /\ offsetResp' = reply
                    /\ UNCHANGED <<todo, ret, offsets>>
    /\ UNCHANGED <<ctx, groupID, members, topicPartitions, reported>>
    /\ UNCHANGED otherThanInspect

\* lines 115-182: the latest-offset request of the topic and the pairing
ListOffsets ==
    /\ pc = "listOffsets"
    /\ \E reply \in OffsetRepliesOf(topicPartitions[topic]) :
        /\ ctx = "cancelled" => reply.err
        /\ Replays("ListOffsets", topic, reply)
        /\ first' = Logged("ListOffsets", topic, reply)
        /\ requests' = Append(requests,
                              Request("ListOffsets", topic, topicPartitions[topic], ~reply.err,
                                      PartitionEntries(reply)))
        /\ cancelHit' = (cancelHit \/ ctx = "cancelled")
        /\ group' = group
        /\ topic' = ""
        /\ offsetResp' = NoResp
        /\ IF reply.err
           THEN /\ todo' = Remaining(todo, topic)
                /\ offsets' = SkipTopic(offsets, topic)
                /\ LoopOrReturn(members, Remaining(todo, topic), SkipTopic(offsets, topic))
           ELSE LET r == PairOffsets(topicPartitions[topic], 1, offsetResp, reply, EmptyMap)
                IN  IF r.panic
                    THEN /\ pc' = "panic"
                         /\ UNCHANGED <<todo, offsets, ret>>
                    ELSE /\ todo' = Remaining(todo, topic)
                         /\ offsets' = MapPut(offsets, topic, r.val)
                         /\ LoopOrReturn(members, Remaining(todo, topic),
                                         MapPut(offsets, topic, r.val))
    /\ UNCHANGED <<ctx, groupID, members, topicPartitions, reported>>
    /\ UNCHANGED otherThanInspect

\* the caller cancels the context while the call runs
Cancel ==
    /\ pc \notin {"done", "panic"}
    /\ ctx = "live"
    /\ ctx' = "cancelled"
    /\ UNCHANGED <<pc, groupID, group, members, topicPartitions, todo, topic,
                   offsetResp, offsets, ret, requests, reported, cancelHit, first>>
    /\ UNCHANGED otherThanInspect

Next ==
    \/ DescribeGroup
    \/ ParseMember
    \/ OffsetFetch
    \/ ListOffsets
    \/ Cancel

Spec == Init /\ [][Next]_vars

(***************************************************************************)
(* Two consecutive GetConsumerGroup calls on the same group: the second     *)
(* call gets, request by request, the replies the first call got            *)
(***************************************************************************)
InitTwice ==
    /\ calc = NoCalc
    /\ del = NoDelete
    /\ MoreIdle
    /\ pc = "describe"
    /\ ctx = "live"
    /\ first = [round |-> 1, log |-> << >>]
    /\ groupID = "g1"
    /\ group = NoGroup
    /\ members = << >>
    /\ topicPartitions = EmptyMap
    /\ todo = {}
    /\ topic = ""
    /\ offsetResp = NoResp
    /\ offsets = EmptyMap
    /\ ret = [details |-> NilDetails, err |-> NoError]
    /\ requests = << >>
    /\ reported = << >>
    /\ cancelHit = FALSE

\* the first call returned a snapshot; the caller calls again
InspectAgain ==
    /\ pc = "done"
    /\ first.round = 1
    /\ ~ret.details.nil
    /\ first' = [round |-> 2, log |-> first.log, ret |-> ret,
                 reported |-> reported, requests |-> requests]
    /\ pc' = "describe"
    /\ group' = NoGroup
    /\ members' = << >>
    /\ topicPartitions' = EmptyMap
    /\ todo' = {}
    /\ topic' = ""
    /\ offsetResp' = NoResp
    /\ offsets' = EmptyMap
    /\ ret' = [details |-> NilDetails, err |-> NoError]
    /\ requests' = << >>
    /\ reported' = << >>
    /\ UNCHANGED <<ctx, groupID, cancelHit>>
    /\ UNCHANGED otherThanInspect

NextTwice ==
    \/ DescribeGroup
    \/ ParseMember
    \/ OffsetFetch
    \/ ListOffsets
    \/ InspectAgain

SpecTwice == InitTwice /\ [][NextTwice]_vars

(***************************************************************************)
(* The lag derivation on its own: one partition entry of the pairing loop,  *)
(* for every pair of offsets the two replies can carry                      *)
(***************************************************************************)
InspectIdle ==
    /\ pc = "idle"
    /\ ctx = "live"
    /\ groupID = ""
    /\ group = NoGroup
    /\ members = << >>
    /\ topicPartitions = EmptyMap
    /\ todo = {}
    /\ topic = ""
    /\ offsetResp = NoResp
    /\ offsets = EmptyMap
    /\ ret = [details |-> NilDetails, err |-> NoError]
    /\ requests = << >>
    /\ reported = << >>
    /\ cancelHit = FALSE
    /\ first = NoFirst

InitLag ==
    /\ InspectIdle
    /\ del = NoDelete
    /\ MoreIdle
    /\ calc \in [pc : {"in"}, current : Int64, end : Int64, po : {NoCalc.po}]

\* lines 138-180: current and end of one entry give its PartitionOffset
PairEntry ==
    /\ calc.pc = "in"
    /\ calc' = [calc EXCEPT !.pc = "out",
                            !.po = CalcPartitionOffset(calc.current, calc.end)]
    /\ UNCHANGED <<inspectVars, del, moreVars>>

NextLag == PairEntry

SpecLag == InitLag /\ [][NextLag]_vars

(***************************************************************************)
(* DeleteConsumerGroup as a state machine: one call, one reply              *)
(***************************************************************************)
InitDelete ==
    /\ InspectIdle
    /\ calc = NoCalc
    /\ MoreIdle
    /\ del \in [pc : {"call"}, groupID : GroupIDs, reply : {NoDeleteReply},
                err : {NoError}]

\* lines 223-249
DeleteConsumerGroup ==
    /\ del.pc = "call"
    /\ \E resp \in DeleteReplies :
        del' = [del EXCEPT !.pc = "done", !.reply = resp,
                           !.err = DeleteResult(del.groupID, resp)]
    /\ UNCHANGED <<inspectVars, calc, moreVars>>

NextDelete == DeleteConsumerGroup

SpecDelete == InitDelete /\ [][NextDelete]_vars

(***************************************************************************)
(* SetConsumerGroupOffsets as a state machine: one call, one request and    *)
(* one reply                                                                *)
(***************************************************************************)
OthersIdle ==
    /\ InspectIdle
    /\ calc = NoCalc
    /\ del = NoDelete

InitCommit ==
    /\ OthersIdle
    /\ call \in [op : {"SetConsumerGroupOffsets"}, pc : {"call"},
                  groupID : GroupIDs, topic : Topics,
                  partition : CommitPartitions, offset : CommitOffsets,
                  sent : {<< >>}, reply : {[err |-> FALSE, Topics |-> << >>]},
                  err : {NoError}]

\* lines 194-219
SetConsumerGroupOffsets ==
    /\ call.op = "SetConsumerGroupOffsets"
    /\ call.pc = "call"
    /\ \E resp \in CommitReplies :
        call' = [call EXCEPT
                    !.pc = "done",
                    !.sent = Append(call.sent,
                                    CommitRequest(call.groupID, call.topic,
                                                  call.partition, call.offset)),
                    !.reply = resp,
                    !.err = CommitResult(resp)]
    /\ UNCHANGED <<inspectVars, calc, del>>

NextCommit == SetConsumerGroupOffsets

SpecCommit == InitCommit /\ [][NextCommit]_vars

(***************************************************************************)
(* ListConsumerGroups as a state machine: one call, one request, one reply  *)
(***************************************************************************)
InitList ==
    /\ OthersIdle
    /\ call = [op |-> "ListConsumerGroups", pc |-> "call", sent |-> << >>,
               reply |-> [err |-> FALSE, Groups |-> << >>],
               groups |-> << >>, err |-> NoError]

\* lines 37-49
ListConsumerGroups ==
    /\ call.op = "ListConsumerGroups"
    /\ call.pc = "call"
    /\ \E resp \in ListReplies :
        call' = [call EXCEPT !.pc = "done",
                             !.sent = Append(call.sent, ListRequest),
                             !.reply = resp,
                             !.groups = ListResult(resp).groups,
                             !.err = ListResult(resp).err]
    /\ UNCHANGED <<inspectVars, calc, del>>

NextList == ListConsumerGroups

SpecList == InitList /\ [][NextList]_vars

(***************************************************************************)
(* ListConsumerGroups followed by GetConsumerGroup on a returned id, the    *)
(* cluster staying as it is between the two calls                           *)
(***************************************************************************)
InitListInspect == InitList

\* the caller inspects one of the ids the list call returned
InspectListed ==
    /\ call.op = "ListConsumerGroups"
    /\ call.pc = "done"
    /\ pc = "idle"
    /\ \E i \in 1..Len(call.groups) : groupID' = call.groups[i]
    /\ pc' = "describe"
    /\ UNCHANGED <<ctx, group, members, topicPartitions, todo, topic,
                   offsetResp, offsets, ret, requests, reported, cancelHit, first>>
    /\ UNCHANGED otherThanInspect

NextListInspect ==
    \/ ListConsumerGroups
    \/ InspectListed
    \/ DescribeGroup

SpecListInspect == InitListInspect /\ [][NextListInspect]_vars

(***************************************************************************)
(* One call of any of GetConsumerGroup, ListConsumerGroups and              *)
(* SetConsumerGroupOffsets.  The client keeps nothing between calls (each   *)
(* request is built from the arguments of its call), so a sequence of calls *)
(* sends the requests of its calls.                                         *)
(***************************************************************************)
InitCalls == Init \/ InitList \/ InitCommit

NextCalls ==
    \/ DescribeGroup
    \/ ParseMember
    \/ OffsetFetch
    \/ ListOffsets
    \/ ListConsumerGroups
    \/ SetConsumerGroupOffsets

SpecCalls == InitCalls /\ [][NextCalls]_vars


(***************************************************************************)
(* Vocabulary of the properties                                             *)
(***************************************************************************)
DigitChars == {Digits[i] : i \in 1..Len(Digits)}
DigitValue(c) == (CHOOSE i \in 1..Len(Digits) : Digits[i] = c) - 1

RECURSIVE ParseNat(_)
ParseNat(s) ==
    IF s = << >> THEN 0
    ELSE ParseNat(SubSeq(s, 1, Len(s) - 1)) * 10 + DigitValue(s[Len(s)])

\* s is the decimal representation of n: optional minus sign, digits, no
\* leading zero
IsDecimalOf(s, n) ==
    LET neg == Len(s) >= 1 /\ s[1] = "-"
        body == IF neg THEN Tail(s) ELSE s
    IN  /\ Len(body) >= 1
        /\ \A i \in 1..Len(body) : body[i] \in DigitChars
        /\ Len(body) > 1 => body[1] # "0"
        /\ n = IF neg THEN -ParseNat(body) ELSE ParseNat(body)

\* the call is over: it returned, or it was aborted by a run-time panic
Terminal == pc \in {"done", "panic"}
Returned == pc = "done"
ReturnedSnapshot == pc = "done" /\ ~ret.details.nil /\ ret.err = NoError
ReturnedError == pc = "done" /\ ret.details.nil /\ ret.err # NoError

\* the describe reply arrived with one group entry
Described == Len(requests) >= 1 /\ requests[1].ok /\ requests[1].entries = 1
\* ... and its status code was 0
Accepted == Described /\ group.ErrorCode = 0
\* the broker reports the group as absent
Absent ==
    /\ Len(requests) >= 1
    /\ requests[1].ok
    /\ \/ requests[1].entries = 0
       \/ requests[1].entries = 1 /\ group.ErrorCode = 15

OffsetRequests == {i \in 1..Len(requests) : requests[i].api # "DescribeGroups"}
\* a committed-offset or latest-offset request of topic t failed
Failed(t) == \E i \in OffsetRequests : requests[i].topic = t /\ ~requests[i].ok
\* both requests of topic t were answered
Answered(t) ==
    /\ \E i \in OffsetRequests :
          requests[i].topic = t /\ requests[i].api = "OffsetFetch" /\ requests[i].ok
    /\ \E i \in OffsetRequests :
          requests[i].topic = t /\ requests[i].api = "ListOffsets" /\ requests[i].ok

\* every answered offset request got one entry per requested partition
WellFormedReplies ==
    \A i \in OffsetRequests :
        requests[i].ok => requests[i].entries = Len(requests[i].partitions)

\* the members of the describe reply whose payload is absent or complete
Decodable == {i \in 1..Len(reported) : reported[i].kind # "truncated"}
Truncated == {i \in 1..Len(reported) : reported[i].kind = "truncated"}
\* the assignment map a complete payload was written from
AssignmentsOf(i) ==
    LET es == reported[i].Topics
    IN  [t \in {es[k].Topic : k \in 1..Len(es)} |->
            (CHOOSE k \in 1..Len(es) : es[k].Topic = t) ]
PartitionsOf(i, t) == reported[i].Topics[AssignmentsOf(i)[t]].Partitions
\* snapshot member j is reported member i with the assignments it was written with
IsMemberOf(j, i) ==
    LET m == ret.details.Members[j]
    IN  /\ m.ClientID = reported[i].ClientID
        /\ m.ClientHost = reported[i].ClientHost
        /\ DOMAIN m.Assignments = DOMAIN AssignmentsOf(i)
        /\ \A t \in DOMAIN m.Assignments : m.Assignments[t] = PartitionsOf(i, t)
\* every decodable member is in the snapshot, in the reported order
MembersComplete ==
    /\ Len(ret.details.Members) = Cardinality(Decodable)
    /\ \A i \in Decodable :
          IsMemberOf(Cardinality({k \in Decodable : k <= i}), i)

(***************************************************************************)
(* Properties                                                               *)
(***************************************************************************)
\* C1: for every pair (current, end) of int64 offsets the derived
\* PartitionOffset is the one of the lag table: end = -1 and current <= 0:
\* empty, "Empty", lag 0; end = -1 and current > 0: "At latest", lag 0;
\* otherwise the decimal string of end and lag = end if current < 0,
\* end - current if end >= current >= 0, and 0 if end < current.
C1_LagTable ==
    calc.pc = "out" =>
        LET current == calc.current
            end == calc.end
            po == calc.po
        IN  /\ po.Current = current
            /\ po.End = end
            /\ (end = -1 /\ current <= 0) =>
                  po.IsEmpty /\ po.EndDisplay = EmptyDisplay /\ po.Lag = 0
            /\ (end = -1 /\ current > 0) =>
                  ~po.IsEmpty /\ po.EndDisplay = AtLatestDisplay /\ po.Lag = 0
            /\ end # -1 => ~po.IsEmpty /\ IsDecimalOf(po.EndDisplay, end)
            /\ (end # -1 /\ current < 0) => po.Lag = end
            /\ (end # -1 /\ current >= 0 /\ end >= current) => po.Lag = end - current
            /\ (end # -1 /\ current >= 0 /\ end < current) => po.Lag = 0

\* C2: every PartitionOffset derived from broker-reported values of current
\* and end has lag >= 0.
C2_LagNonNegative == calc.pc = "out" => calc.po.Lag >= 0

\* C3: a member whose payload cannot be decoded is still in the members list
\* of the snapshot, with its client id, its host and an empty assignment map,
\* and the snapshot has as many members as the broker reported.
C3_UndecodableMemberKept ==
    ReturnedSnapshot =>
        /\ Len(ret.details.Members) = group.NumMembers
        /\ \A i \in Truncated :
              \E j \in 1..Len(ret.details.Members) :
                  ret.details.Members[j] =
                      [ClientID |-> reported[i].ClientID,
                       ClientHost |-> reported[i].ClientHost,
                       Assignments |-> EmptyMap]

C5_AbsentGroupNotFound ==
    (Terminal /\ Absent) =>
        /\ ReturnedError
        /\ IF requests[1].entries = 0
           THEN ret.err = Errorf("group not found", groupID, 0)
           ELSE ret.err.msg = "consumer group not found"
        /\ OffsetRequests = {}

C5_Witness ==
    /\ Returned
    /\ Absent
    /\ requests[1].entries = 1
    /\ ret.err.msg = "consumer group not found"

\* C6: status code 7 in the describe reply is a transient success: the call
\* returns no error and a snapshot that carries the state of the reply.
C6_PropagatingIsSuccess ==
    (Terminal /\ Described /\ group.ErrorCode = 7) =>
        /\ ReturnedSnapshot
        /\ ret.details.State = group.State

C8_SnapshotOrError == Terminal => (ReturnedSnapshot \/ ReturnedError)

\* C9: a call that made a request on a cancelled context returns an error and
\* no snapshot.
C9_CancelledReturnsError == (Terminal /\ cancelHit) => ReturnedError

\* C10: DeleteConsumerGroup maps the status code of the group entry: 0 and 7
\* are success; 15, 24 and 25 are the not-found, invalid-id and not-empty
\* errors, each naming the group; every other code is the generic failure
\* that carries the code.
C10_DeleteCodes ==
    (del.pc = "done" /\ ~del.reply.err /\ Len(del.reply.Groups) > 0) =>
        LET c == del.reply.Groups[1].ErrorCode
        IN  /\ c \in {0, 7} => del.err = NoError
            /\ c \notin {0, 7} => del.err # NoError
            /\ c = 15 => del.err = Errorf("consumer group not found", del.groupID, 0)
            /\ c = 24 => del.err = Errorf("invalid consumer group id", del.groupID, 0)
            /\ c = 25 => del.err = Errorf("consumer group is not empty", del.groupID, 0)
            /\ c \notin {0, 7, 15, 24, 25} =>
                  del.err = Errorf("failed to delete consumer group: error code", "", c)

C10_Witness ==
    /\ del.pc = "done"
    /\ ~del.reply.err
    /\ Len(del.reply.Groups) > 0
    /\ del.reply.Groups[1].ErrorCode = 25
    /\ del.err.msg = "consumer group is not empty"
    /\ del.err.group = del.groupID

\* the status code of the first partition entry of the commit reply
CommitCode == call.reply.Topics[1].Partitions[1].ErrorCode
CommitAnswered ==
    /\ call.op = "SetConsumerGroupOffsets"
    /\ call.pc = "done"
    /\ ~call.reply.err
    /\ Len(call.reply.Topics) > 0
    /\ Len(call.reply.Topics[1].Partitions) > 0

\* C11: SetConsumerGroupOffsets maps the status code of the partition entry
\* of the commit reply: 0 and 7 are success; 15 and 24 are the not-found and
\* invalid-id errors; every other code is an error that carries the code; no
\* code other than 0 and 7 is success.
C11_CommitCodes ==
    CommitAnswered =>
        /\ CommitCode \in {0, 7} <=> call.err = NoError
        /\ CommitCode = 15 => call.err.msg = "consumer group not found"
        /\ CommitCode = 24 => call.err.msg = "invalid consumer group id"
        /\ CommitCode \notin {0, 7, 15, 24} =>
              /\ call.err.code = CommitCode
              /\ call.err.msg \notin {"consumer group not found",
                                      "invalid consumer group id"}

C11_Witness ==
    /\ CommitAnswered
    /\ CommitCode = 25
    /\ call.err.code = 25

\* C12: ListConsumerGroups sends one request without filter and returns the
\* group ids of the reply: one per group entry, in the order of the reply,
\* ids that occur twice included.
C12_ListVerbatim ==
    (call.op = "ListConsumerGroups" /\ call.pc = "done") =>
        /\ Len(call.sent) = 1
        /\ call.sent[1].api = "ListGroups"
        /\ call.sent[1].StatesFilter = << >>
        /\ ~call.reply.err =>
              /\ call.err = NoError
              /\ Len(call.groups) = Len(call.reply.Groups)
              /\ \A i \in 1..Len(call.groups) :
                    call.groups[i] = call.reply.Groups[i].Group

C12_Witness ==
    /\ call.op = "ListConsumerGroups"
    /\ call.pc = "done"
    /\ call.groups = <<"g2", "g1", "g2">>

\* the two errors by which GetConsumerGroup reports a group as not found
NotFoundError ==
    ret.err.msg \in {"group not found", "consumer group not found"}

\* C13: when the cluster stays as it is, GetConsumerGroup on an id that the
\* preceding ListConsumerGroups call returned does not end with a not-found
\* error.
C13_ListedIsFound ==
    (/\ call.op = "ListConsumerGroups"
     /\ call.pc = "done"
     /\ Terminal) =>
        /\ \E i \in 1..Len(call.groups) : call.groups[i] = groupID
        /\ requests[1].group = groupID
        /\ ~NotFoundError

C13_Witness ==
    /\ call.op = "ListConsumerGroups"
    /\ call.pc = "done"
    /\ Len(call.groups) >= 2
    /\ groupID = call.groups[2]
    /\ ReturnedSnapshot

\* a member as the comparison of two snapshots reads it: the partitions of a
\* topic as a set
MemberContent(m) ==
    [ClientID |-> m.ClientID, ClientHost |-> m.ClientHost,
     Assignments |-> [t \in DOMAIN m.Assignments |->
                        {m.Assignments[t][k] : k \in 1..Len(m.Assignments[t])}]]
\* two member lists with the same members, whatever their order
SameMembers(a, b) ==
    /\ Len(a) = Len(b)
    /\ \A i \in 1..Len(a) :
          Cardinality({k \in 1..Len(a) : MemberContent(a[k]) = MemberContent(a[i])})
              = Cardinality({k \in 1..Len(b) : MemberContent(b[k]) = MemberContent(a[i])})

\* C14: a second GetConsumerGroup call on the same group that gets the same
\* replies returns a snapshot with the same members, whatever their order and
\* the order of their partitions, and the same offsets map.
C14_SecondCallSameSnapshot ==
    (first.round = 2 /\ Terminal) =>
        /\ ReturnedSnapshot
        /\ SameMembers(ret.details.Members, first.ret.details.Members)
        /\ ret.details.Offsets = first.ret.details.Offsets

C14_Witness ==
    /\ first.round = 2
    /\ ReturnedSnapshot
    /\ Len(ret.details.Members) = MaxRepeated
    /\ DOMAIN ret.details.Offsets = Topics
    /\ requests # first.requests

(***************************************************************************)
(* C15.  GetConsumerGroup and ListConsumerGroups only read: they send only  *)
(* list-groups, describe-group, committed-offset-fetch and latest-offset    *)
(* requests, none of which writes a committed offset or changes a group's   *)
(* membership.  SetConsumerGroupOffsets sends exactly one commit request,   *)
(* and that request names exactly one (group, topic, partition): the one    *)
(* of its arguments.                                                        *)
(***************************************************************************)
ReadingApis == {"ListGroups", "DescribeGroups", "OffsetFetch", "ListOffsets"}

\* the (group, topic, partition) triples whose committed offset request req
\* overwrites
Overwritten(req) ==
    IF req.api = "OffsetCommit"
    THEN UNION {{<<req.Group, req.Topics[i].Topic,
                    req.Topics[i].Partitions[j].Partition>> :
                      j \in 1..Len(req.Topics[i].Partitions)} :
                        i \in 1..Len(req.Topics)}
    ELSE {}

\* every request sent so far, whichever call sent it
AllSent == requests \o (IF call = NoCall THEN << >> ELSE call.sent)

C15_ReadsAndSingleWrite ==
    /\ call.op # "SetConsumerGroupOffsets" =>
          \A i \in 1..Len(AllSent) :
              AllSent[i].api \in ReadingApis /\ Overwritten(AllSent[i]) = {}
    /\ \A i \in 1..Len(requests) :
          requests[i].api \in ReadingApis \ {"ListGroups"}
    /\ call.op = "ListConsumerGroups" =>
          \A i \in 1..Len(call.sent) : call.sent[i].api = "ListGroups"
    /\ (call.op = "SetConsumerGroupOffsets" /\ call.pc = "done") =>
          /\ Len(call.sent) = 1
          /\ call.sent[1].api = "OffsetCommit"
          /\ Overwritten(call.sent[1]) =
                {<<call.groupID, call.topic, call.partition>>}
    /\ (call.op = "SetConsumerGroupOffsets" /\ call.pc # "done") =>
          call.sent = << >>

C15_Witness ==
    /\ call.op = "SetConsumerGroupOffsets"
    /\ call.pc = "done"
    /\ call.err = NoError
    /\ Overwritten(call.sent[1]) = {<<"g2", call.topic, MaxPartition>>}

(***************************************************************************)
(* C16.  SetConsumerGroupOffsets with a negative partition or a negative    *)
(* offset returns an error and commits nothing: no commit request reaches   *)
(* the broker.                                                              *)
(***************************************************************************)
NegativeArgument == call.partition < 0 \/ call.offset < 0

C16_NegativeRejected ==
    (call.op = "SetConsumerGroupOffsets" /\ call.pc = "done" /\ NegativeArgument) =>
        /\ call.err # NoError
        /\ \A i \in 1..Len(call.sent) : Overwritten(call.sent[i]) = {}

(***************************************************************************)
(* C17.  A member whose assignment payload is a complete encoding with zero *)
(* topic entries is decoded without error: the member is in the members     *)
(* list with an empty assignment map, and the partitions collected per      *)
(* topic are those of the other members.                                    *)
(***************************************************************************)
ZeroEntries == {i \in 1..Len(reported) :
                  reported[i].kind = "complete" /\ reported[i].Topics = << >>}

\* the partitions the topic entries of one assignment give topic t
RECURSIVE EntryPartitions(_, _)
EntryPartitions(entries, t) ==
    IF entries = << >> THEN << >>
    ELSE (IF Head(entries).Topic = t THEN Head(entries).Partitions ELSE << >>)
         \o EntryPartitions(Tail(entries), t)

\* the partitions of topic t in the assignments of the members in keep, in
\* reply order
RECURSIVE PartitionsFrom(_, _, _)
PartitionsFrom(i, keep, t) ==
    IF i > Len(reported) THEN << >>
    ELSE (IF i \in keep THEN EntryPartitions(reported[i].Topics, t) ELSE << >>)
         \o PartitionsFrom(i + 1, keep, t)

Atoi(s) ==
    LET signed == s # << >> /\ s[1] \in {"-", "+"}
        digits == IF signed THEN Tail(s) ELSE s
    IN  IF digits # << >> /\ \A i \in 1..Len(digits) : digits[i] \in DigitChars
        THEN [ok |-> TRUE,
              val |-> IF signed /\ s[1] = "-" THEN -ParseNat(digits) ELSE ParseNat(digits)]
        ELSE [ok |-> FALSE, val |-> 0]

\* the strings given for resource type, operation and permission
AclStrings == {<<"2">>, <<"-", "3">>, <<"x">>}

\* fmt.Errorf("...: %w", err)
Wrap(m, err) == [msg |-> m, cause |-> err]

\* lines 22-33 and 58-69: the three conversions, in this order
AclNumbers(resourceType, operation, permission) ==
    IF ~Atoi(resourceType).ok
    THEN [err |-> Errorf("invalid resource type", "", 0)]
    ELSE IF ~Atoi(operation).ok
    THEN [err |-> Errorf("invalid operation", "", 0)]
    ELSE IF ~Atoi(permission).ok
    THEN [err |-> Errorf("invalid permission", "", 0)]
    ELSE [err |-> NoError,
          ResourceType |-> Atoi(resourceType).val,
          Operation |-> Atoi(operation).val,
          PermissionType |-> Atoi(permission).val]

\* lines 71-80 and 35-44: the single filter or creation of a request
AclRequest(api, n, resourceName, principal, host) ==
    [api |-> api,
     Entries |-> <<[ResourceType |-> n.ResourceType, ResourceName |-> resourceName,
                    Principal |-> principal, Host |-> host,
                    Operation |-> n.Operation,
                    PermissionType |-> n.PermissionType]>>]

\* a reply to either request: transport error (the timeout of lines 19 and 55
\* included), no result entry, or one result entry with a status code
AclReplies ==
    {[err |-> TRUE, Results |-> << >>], [err |-> FALSE, Results |-> << >>]}
    \cup {[err |-> FALSE, Results |-> <<[ErrorCode |-> c]>>] : c \in ErrorCodes}

\* variant: the status code of the delete reply is not looked at
DeleteAclResultAnyCode(resp) ==
    IF resp.err THEN Errorf("failed to delete ACL (timeout=10s)", "", 0)
    ELSE NoError

\* lines 82-95
DeleteAclResult(resp) ==
    IF resp.err THEN Errorf("failed to delete ACL (timeout=10s)", "", 0)
    ELSE IF Len(resp.Results) > 0 /\ resp.Results[1].ErrorCode # 0
    THEN CASE resp.Results[1].ErrorCode = 7 -> NoError
           [] OTHER -> Errorf("failed to delete ACL: error code", "",
                              resp.Results[1].ErrorCode)
    ELSE NoError

\* lines 183-197
handleACLCreateError(resp) ==
    IF Len(resp.Results) > 0 /\ resp.Results[1].ErrorCode # 0
    THEN CASE resp.Results[1].ErrorCode = 7 -> NoError
           [] resp.Results[1].ErrorCode = 87 ->
                Errorf("invalid resource type or name", "", 0)
           [] resp.Results[1].ErrorCode = 88 ->
                Errorf("invalid principal format", "", 0)
           [] OTHER -> Errorf("failed to create ACL: error code", "",
                              resp.Results[1].ErrorCode)
    ELSE NoError

\* lines 45-49
CreateAclResult(resp) ==
    IF resp.err THEN Errorf("failed to create ACL (timeout=10s)", "", 0)
    ELSE handleACLCreateError(resp)

NoAclReply == [err |-> FALSE, Results |-> << >>]

InitModifyAcl ==
    /\ OthersIdle
    /\ call \in [op : {"ModifyAcl"}, pc : {"delete"},
                  resourceType : {<<"2">>, <<"x">>}, resourceName : {"t1"},
                  principal : {"User:a"}, host : {"*"},
                  operation : {<<"-", "3">>, << >>},
                  permission : AclStrings, newPermission : AclStrings,
                  sent : {<< >>}, deleteReply : {NoAclReply},
                  createReply : {NoAclReply}, err : {NoError}]

\* lines 103-106, with DeleteAcl (lines 54-96)
DeleteAcl ==
    /\ call.op = "ModifyAcl"
    /\ call.pc = "delete"
    /\ LET n == AclNumbers(call.resourceType, call.operation, call.permission)
       IN  IF n.err # NoError
           THEN call' = [call EXCEPT
                            !.pc = "done",
                            !.err = Wrap("failed to delete existing ACL", n.err)]
           ELSE \E resp \in AclReplies :
                  LET err == DeleteAclResult(resp)
                  IN  call' = [call EXCEPT
                                  !.sent = Append(call.sent,
                                                  AclRequest("DeleteACLs", n,
                                                             call.resourceName,
                                                             call.principal, call.host)),
                                  !.deleteReply = resp,
                                  !.pc = IF err # NoError THEN "done" ELSE "create",
                                  !.err = IF err # NoError
                                          THEN Wrap("failed to delete existing ACL", err)
                                          ELSE NoError]
    /\ UNCHANGED <<inspectVars, calc, del>>

\* variant: a failed create is followed by a request that creates the ACL
\* with the old permission again
CreateAclRestoring ==
    /\ call.op = "ModifyAcl"
    /\ call.pc = "create"
    /\ LET n == AclNumbers(call.resourceType, call.operation, call.newPermission)
           o == AclNumbers(call.resourceType, call.operation, call.permission)
           again == AclRequest("CreateACLs", o, call.resourceName, call.principal,
                               call.host)
       IN  IF n.err # NoError
           THEN call' = [call EXCEPT
                            !.sent = Append(call.sent, again),
                            !.pc = "done",
                            !.err = Wrap("failed to create new ACL", n.err)]
           ELSE \E resp \in AclReplies :
                  LET err == CreateAclResult(resp)
                      request == AclRequest("CreateACLs", n, call.resourceName,
                                            call.principal, call.host)
                  IN  call' = [call EXCEPT
                                  !.sent = IF err # NoError
                                           THEN call.sent \o <<request, again>>
                                           ELSE Append(call.sent, request),
                                  !.createReply = resp,
                                  !.pc = "done",
                                  !.err = IF err # NoError
                                          THEN Wrap("failed to create new ACL", err)
                                          ELSE NoError]
    /\ UNCHANGED <<inspectVars, calc, del>>

\* lines 109-114, with CreateAcl (lines 18-50)
CreateAcl ==
    /\ call.op = "ModifyAcl"
    /\ call.pc = "create"
    /\ LET n == AclNumbers(call.resourceType, call.operation, call.newPermission)
       IN  IF n.err # NoError
           THEN call' = [call EXCEPT
                            !.pc = "done",
                            !.err = Wrap("failed to create new ACL", n.err)]
           ELSE \E resp \in AclReplies :
                  LET err == CreateAclResult(resp)
                  IN  call' = [call EXCEPT
                                  !.sent = Append(call.sent,
                                                  AclRequest("CreateACLs", n,
                                                             call.resourceName,
                                                             call.principal, call.host)),
                                  !.createReply = resp,
                                  !.pc = "done",
                                  !.err = IF err # NoError
                                          THEN Wrap("failed to create new ACL", err)
                                          ELSE NoError]
    /\ UNCHANGED <<inspectVars, calc, del>>

NextModifyAcl == DeleteAcl \/ CreateAcl

SpecModifyAcl == InitModifyAcl /\ [][NextModifyAcl]_vars

(***************************************************************************)
(* C18.  ModifyAcl sends the delete request before the create request.  A   *)
(* failed delete (transport error or a status code other than 0 and 7)      *)
(* gives an error that starts with 'failed to delete existing ACL' and no   *)
(* create request; a failed create after a successful delete gives an error *)
(* that starts with 'failed to create new ACL'; success is returned only    *)
(* when both succeeded.                                                     *)
(***************************************************************************)
ModifyDone == call.op = "ModifyAcl" /\ call.pc = "done"
Tolerated(reply) ==
    /\ ~reply.err
    /\ Len(reply.Results) > 0 => reply.Results[1].ErrorCode \in {0, 7}
SentApis == [i \in 1..Len(call.sent) |-> call.sent[i].api]
DeleteFailed == Len(call.sent) >= 1 /\ ~Tolerated(call.deleteReply)
DeleteSucceeded == Len(call.sent) >= 1 /\ Tolerated(call.deleteReply)
CreateFailed ==
    /\ DeleteSucceeded
    /\ Len(call.sent) = 2 => ~Tolerated(call.createReply)
CreateSucceeded == Len(call.sent) = 2 /\ Tolerated(call.createReply)

C18_DeleteBeforeCreate ==
    call.op = "ModifyAcl" =>
        /\ SentApis \in {<< >>, <<"DeleteACLs">>, <<"DeleteACLs", "CreateACLs">>}
        /\ (ModifyDone /\ DeleteFailed) =>
              /\ call.err # NoError
              /\ call.err.msg = "failed to delete existing ACL"
              /\ SentApis = <<"DeleteACLs">>
        /\ (ModifyDone /\ CreateFailed) =>
              /\ call.err # NoError
              /\ call.err.msg = "failed to create new ACL"
        /\ (ModifyDone /\ call.err = NoError) =>
              DeleteSucceeded /\ CreateSucceeded

C18_Witness ==
    /\ ModifyDone
    /\ SentApis = <<"DeleteACLs", "CreateACLs">>
    /\ call.deleteReply.Results = <<[ErrorCode |-> 7]>>
    /\ call.createReply.Results = <<[ErrorCode |-> 88]>>
    /\ call.err = Wrap("failed to create new ACL", Errorf("invalid principal format", "", 0))
    /\ call.sent[1].Entries[1].PermissionType = 2
    /\ call.sent[2].Entries[1].PermissionType = -3

(***************************************************************************)
(* CreateTopic (src/unnamed/part_014): one request for one topic, the       *)
(* status code of the first topic entry of the reply decides the result.    *)
(* An error is its message, the string it is formatted with and the number  *)
(* it is formatted with.                                                    *)
(***************************************************************************)
PartitionCounts == {1, 3}
ReplicationFactors == {1, 2}
\* status codes of the topic entries after the first
LaterCodes == {0, 36}

\* lines 170-177
CreateTopicRequest(t, partitions, replicationFactor) ==
    [api |-> "CreateTopics",
     Topics |-> <<[Topic |-> t, NumPartitions |-> partitions,
                   ReplicationFactor |-> replicationFactor]>>]

\* a reply: transport error, no topic entry, one topic entry or two
CreateTopicReplies ==
    {[err |-> TRUE, Topics |-> << >>], [err |-> FALSE, Topics |-> << >>]}
    \cup {[err |-> FALSE, Topics |-> <<[ErrorCode |-> c]>>] : c \in ErrorCodes}
    \cup {[err |-> FALSE, Topics |-> <<[ErrorCode |-> c], [ErrorCode |-> d]>>] :
             c \in ErrorCodes, d \in LaterCodes}

\* variant: code 7 is a failure like any other code
handleTopicCreateErrorNo7(resp, t, partitions, replicationFactor) ==
    IF Len(resp.Topics) > 0 /\ resp.Topics[1].ErrorCode # 0
    THEN CASE resp.Topics[1].ErrorCode = 36 -> Errorf("topic already exists", t, 0)
           [] resp.Topics[1].ErrorCode = 37 ->
                Errorf("invalid replication factor", "", replicationFactor)
           [] resp.Topics[1].ErrorCode = 39 ->
                Errorf("invalid number of partitions", "", partitions)
           [] resp.Topics[1].ErrorCode = 41 -> Errorf("topic name is invalid", "", 0)
           [] OTHER -> Errorf("failed to create topic: error code", "",
                              resp.Topics[1].ErrorCode)
    ELSE NoError

\* lines 335-353
handleTopicCreateError(resp, t, partitions, replicationFactor) ==
    IF Len(resp.Topics) > 0 /\ resp.Topics[1].ErrorCode # 0
    THEN CASE resp.Topics[1].ErrorCode = 7 -> NoError
           [] resp.Topics[1].ErrorCode = 36 -> Errorf("topic already exists", t, 0)
           [] resp.Topics[1].ErrorCode = 37 ->
                Errorf("invalid replication factor", "", replicationFactor)
           [] resp.Topics[1].ErrorCode = 39 ->
                Errorf("invalid number of partitions", "", partitions)
           [] resp.Topics[1].ErrorCode = 41 -> Errorf("topic name is invalid", "", 0)
           [] OTHER -> Errorf("failed to create topic: error code", "",
                              resp.Topics[1].ErrorCode)
    ELSE NoError

\* lines 179-183
CreateTopicResult(resp, t, partitions, replicationFactor) ==
    IF resp.err THEN Errorf("failed to create topic", "", 0)
    ELSE handleTopicCreateError(resp, t, partitions, replicationFactor)

InitCreateTopic ==
    /\ OthersIdle
    /\ call \in [op : {"CreateTopic"}, pc : {"call"}, topic : Topics,
                  partitions : PartitionCounts,
                  replicationFactor : ReplicationFactors,
                  sent : {<< >>}, reply : {[err |-> FALSE, Topics |-> << >>]},
                  err : {NoError}]

\* lines 169-184
CreateTopic ==
    /\ call.op = "CreateTopic"
    /\ call.pc = "call"
    /\ \E resp \in CreateTopicReplies :
        call' = [call EXCEPT
                    !.pc = "done",
                    !.sent = Append(call.sent,
                                    CreateTopicRequest(call.topic, call.partitions,
                                                       call.replicationFactor)),
                    !.reply = resp,
                    !.err = CreateTopicResult(resp, call.topic, call.partitions,
                                              call.replicationFactor)]
    /\ UNCHANGED <<inspectVars, calc, del>>

NextCreateTopic == CreateTopic

SpecCreateTopic == InitCreateTopic /\ [][NextCreateTopic]_vars

(***************************************************************************)
(* C19.  Topic creation maps the status code of the first topic entry of    *)
(* the reply: 0 and 7 give success; 36 'topic already exists', 37 'invalid  *)
(* replication factor', 39 'invalid number of partitions', 41 'topic name   *)
(* is invalid'; every other code a generic failure carrying the raw code;   *)
(* a reply with no topic entry gives success.                               *)
(***************************************************************************)
TopicAnswered == call.op = "CreateTopic" /\ call.pc = "done" /\ ~call.reply.err
FirstTopicCode == call.reply.Topics[1].ErrorCode

C19_TopicCreateCodes ==
    TopicAnswered =>
        IF Len(call.reply.Topics) = 0 THEN call.err = NoError
        ELSE /\ FirstTopicCode \in {0, 7} => call.err = NoError
             /\ FirstTopicCode = 36 => call.err.msg = "topic already exists"
             /\ FirstTopicCode = 37 => call.err.msg = "invalid replication factor"
             /\ FirstTopicCode = 39 => call.err.msg = "invalid number of partitions"
             /\ FirstTopicCode = 41 => call.err.msg = "topic name is invalid"
             /\ FirstTopicCode \notin {0, 7, 36, 37, 39, 41} =>
                   /\ call.err.msg = "failed to create topic: error code"
                   /\ call.err.code = FirstTopicCode

C19_Witness ==
    /\ TopicAnswered
    /\ Len(call.reply.Topics) = 2
    /\ FirstTopicCode = 7
    /\ call.reply.Topics[2].ErrorCode = 36
    /\ call.err = NoError

(***************************************************************************)
(* The command line (src/unnamed/part_005, src/cmd/profile.go) and the      *)
(* stored profiles (src/unnamed/part_009).  One action is one invocation    *)
(* of the program: the globals bound to the flags start from the flags of   *)
(* the invocation; the keyring and the active-profile file stay between     *)
(* invocations.  Names of profiles are strings, the other values are        *)
(* tuples, << >> being the empty string.                                    *)
(***************************************************************************)
ProfileNames == {"default", "prod", "dev"}
\* command and parent command of an invocation
Commands == {[parent |-> "kac", name |-> "version"],
             [parent |-> "get", name |-> "topics"],
             [parent |-> "kac", name |-> "login"],
             [parent |-> "kac", name |-> "logout"],
             [parent |-> "kac", name |-> "profile"],
             [parent |-> "profile", name |-> "list"]}

\* part_009 lines 19-26: what is stored under a name
Profile(name) ==
    [Brokers |-> <<"brokers", name>>, Username |-> <<"user", name>>,
     Password |-> <<"password", name>>,
     SASLMechanism |-> IF name = "prod" THEN <<"PLAIN">> ELSE << >>,
     CACertPath |-> IF name = "prod" THEN <<"ca", name>> ELSE << >>,
     Insecure |-> (name = "dev")]

\* part_009 lines 54-74: Load; the empty name is the default profile
Load(profileName, stored) ==
    LET name == IF profileName = "" THEN "default" ELSE profileName
    IN  IF name \notin stored
        THEN [err |-> Errorf("profile not found. Use 'kac login' to save credentials",
                             name, 0)]
        ELSE [err |-> NoError, prof |-> Profile(name)]

\* part_009 lines 109-116
Exists(profileName, stored) ==
    (IF profileName = "" THEN "default" ELSE profileName) \in stored

\* part_009 lines 197-215: the content of the file, "default" without file
\* or with an empty file
GetActiveProfile(file) ==
    IF file = << >> THEN "default"
    ELSE IF file[1] = "" THEN "default"
    ELSE file[1]

\* part_009 lines 168-194: the file after the call, and the error
SetActiveProfile(profileName, stored, file) ==
    LET name == IF profileName = "" THEN "default" ELSE profileName
    IN  IF ~Exists(name, stored)
        THEN [err |-> Errorf("profile does not exist", name, 0), file |-> file]
        ELSE [err |-> NoError, file |-> <<name>>]

\* variant: the active profile wins over the flag
SelectProfileActiveFirst(changed, flagValue, activeProfile) ==
    IF activeProfile # "" /\ activeProfile # "default" THEN activeProfile
    ELSE flagValue

\* part_005 lines 77-82 and 108: the value of the global profile after the
\* flags are parsed and the active profile is looked at
SelectProfile(changed, flagValue, activeProfile) ==
    IF ~changed
    THEN IF activeProfile # "" /\ activeProfile # "default" THEN activeProfile
         ELSE "default"
    ELSE flagValue

\* part_005 lines 145-172: the globals after loading, and the error
loadCredentialsFromProfile(g, stored) ==
    LET r == Load(g.profile, stored)
    IN  IF r.err # NoError THEN [err |-> r.err, g |-> g]
        ELSE [err |-> NoError,
              g |-> [g EXCEPT
                       !.brokers = IF g.brokers = << >> THEN r.prof.Brokers ELSE @,
                       !.username = IF g.username = << >> THEN r.prof.Username ELSE @,
                       !.password = IF g.password = << >> THEN r.prof.Password ELSE @,
                       !.saslMechanism =
                           IF g.saslMechanism = <<"SCRAM-SHA-512">>
                              /\ r.prof.SASLMechanism # << >>
                           THEN r.prof.SASLMechanism ELSE @,
                       !.caCertPath = IF g.caCertPath = << >>
                                      THEN r.prof.CACertPath ELSE @,
                       !.insecure = IF ~g.insecure THEN r.prof.Insecure ELSE @]]

\* part_005 lines 123-134: the password after prompting; typed is what the
\* terminal gave, << >> standing for a failed read
getPassword(password, typed) ==
    IF password # << >> THEN [err |-> NoError, password |-> password]
    ELSE IF typed = << >>
    THEN [err |-> Errorf("failed to read password", "", 0), password |-> << >>]
    ELSE [err |-> NoError, password |-> typed]

\* the globals of an invocation, as the flags set them (lines 108-115)
Flags ==
    [profile : ProfileNames \cup {""}, changed : BOOLEAN,
     brokers : {<< >>, <<"brokers", "flag">>}, username : {<< >>},
     password : {<< >>, <<"password", "flag">>},
     saslMechanism : {<<"SCRAM-SHA-512">>}, caCertPath : {<< >>},
     insecure : {FALSE}, promptPassword : BOOLEAN]
FlagsGiven == {f \in Flags : ~f.changed => f.profile = "default"}

NoRun == [cmd |-> [parent |-> "", name |-> ""], err |-> NoError]

\* part_005 lines 64-104, with flags f and typed at the terminal: the
\* globals after the hook, the name asked of the keyring, and the error
PreRun(cmd, f, typed, stored, file) ==
    IF cmd.name \in {"login", "logout", "profile"} \/ cmd.parent = "profile"
    THEN [g |-> f, asked |-> << >>, loaded |-> FALSE, err |-> NoError]
    ELSE LET g1 == [f EXCEPT !.profile = SelectProfile(f.changed, f.profile,
                                                       GetActiveProfile(file))]
             asks == g1.brokers = << >> /\ g1.username = << >> /\ g1.password = << >>
             l == loadCredentialsFromProfile(g1, stored)
             g2 == IF asks THEN l.g ELSE g1
             asked == IF asks THEN <<g1.profile>> ELSE << >>
             loaded == asks /\ l.err = NoError
         IN  IF asks /\ l.err # NoError /\ f.changed
             THEN [g |-> g2, asked |-> asked, loaded |-> FALSE, err |-> l.err]
             ELSE IF g2.promptPassword
             THEN LET pw == getPassword(g2.password, typed)
                  IN  [g |-> [g2 EXCEPT !.password = pw.password], asked |-> asked,
                       loaded |-> loaded, err |-> pw.err]
             ELSE [g |-> g2, asked |-> asked, loaded |-> loaded, err |-> NoError]

\* the keyring holds any profiles; no profile was made active yet
InitCommandLine ==
    /\ OthersIdle
    /\ call \in [op : {"kac"}, pc : {"ready"}, stored : SUBSET ProfileNames,
                  file : {<< >>}, switched : {"default"}, run : {NoRun}]

\* one invocation of a command: the hook of part_005 lines 64-104
PersistentPreRunE ==
    /\ call.op = "kac"
    /\ \E cmd \in Commands, f \in FlagsGiven :
       \E typed \in IF f.promptPassword THEN {<< >>, <<"password", "typed">>}
                     ELSE {<< >>} :
        LET r == PreRun(cmd, f, typed, call.stored, call.file)
        IN  call' = [call EXCEPT
                        !.run = [cmd |-> cmd, flags |-> f, g |-> r.g,
                                 asked |-> r.asked, loaded |-> r.loaded,
                                 err |-> r.err]]
    /\ UNCHANGED <<inspectVars, calc, del>>

\* one invocation of 'profile switch <name>': profile.go lines 113-123 (the
\* hook returns at once, line 72); switched is the name of the last switch
\* that succeeded
runProfileSwitch ==
    /\ call.op = "kac"
    /\ \E profileName \in ProfileNames \cup {""} :
        LET r == SetActiveProfile(profileName, call.stored, call.file)
        IN  call' = [call EXCEPT
                        !.file = r.file,
                        !.switched = IF r.err = NoError
                                     THEN (IF profileName = "" THEN "default"
                                           ELSE profileName)
                                     ELSE @,
                        !.run = [cmd |-> [parent |-> "profile", name |-> "switch"],
                                 err |-> r.err]]
    /\ UNCHANGED <<inspectVars, calc, del>>

NextCommandLine == PersistentPreRunE \/ runProfileSwitch

SpecCommandLine == InitCommandLine /\ [][NextCommandLine]_vars

(***************************************************************************)
(* C20.  For every command other than login, logout and profile, the stored *)
(* profile that credentials are loaded from is the active profile set by    *)
(* 'profile switch' (the default profile when none was set), unless the     *)
(* --profile flag is given: then it is the flag's profile, whatever the     *)
(* active profile is.                                                       *)
(***************************************************************************)
LoadingCommand ==
    /\ call.op = "kac"
    /\ call.run.cmd.name \notin {"", "login", "logout", "profile", "switch"}
    /\ call.run.cmd.parent # "profile"
\* the empty name is the default profile
Named(name) == IF name = "" THEN "default" ELSE name
ProfileToUse ==
    IF call.run.flags.changed THEN Named(call.run.flags.profile) ELSE call.switched

C21_SequentialNoRetry ==
    /\ (pc # "describe") = (Len(requests) >= 1)
    /\ \A i \in 1..Len(requests) :
          /\ (requests[i].api = "DescribeGroups") = (i = 1)
          /\ requests[i].group = groupID
    /\ OffsetRequests # {} => Accepted
    /\ \A i \in OffsetRequests :
          /\ requests[i].api = "ListOffsets" =>
                /\ requests[i - 1].api = "OffsetFetch"
                /\ requests[i - 1].topic = requests[i].topic
                /\ requests[i - 1].ok
          /\ requests[i].api = "OffsetFetch" =>
                (requests[i - 1].api = "OffsetFetch" => ~requests[i - 1].ok)
          /\ \A j \in OffsetRequests :
                (requests[j].api = requests[i].api
                    /\ requests[j].topic = requests[i].topic) => j = i
    /\ (pc = "listOffsets") =
          (/\ Len(requests) >= 2
           /\ requests[Len(requests)].api = "OffsetFetch"
           /\ requests[Len(requests)].ok)
    /\ Returned => pc \notin {"offsets", "listOffsets"}

C21_Witness ==
    /\ ReturnedSnapshot
    /\ Len(requests) = 4
    /\ ~requests[2].ok
    /\ requests[3].ok
    /\ requests[4].api = "ListOffsets"
    /\ requests[4].ok

(***************************************************************************)
(* C22.  The partitions reconciled for a topic are the union of the         *)
(* partitions the decoded members hold of it: every offset request of the   *)
(* topic names each partition of the union, and each once; when both        *)
(* requests of the topic were answered, the keys of offsets[topic] are the  *)
(* partitions of the union.                                                 *)
(***************************************************************************)
\* the partitions of topic t held by some member whose payload decoded
UnionOf(t) ==
    UNION {{PartitionsOf(i, t)[k] : k \in 1..Len(PartitionsOf(i, t))} :
             i \in {m \in Decodable : t \in DOMAIN AssignmentsOf(m)}}
NamedOnce(ps) == \A i, j \in 1..Len(ps) : ps[i] = ps[j] => i = j

C22_UnionRequestedOnce ==
    /\ \A i \in OffsetRequests :
          /\ {requests[i].partitions[k] : k \in 1..Len(requests[i].partitions)}
                = UnionOf(requests[i].topic)
          /\ NamedOnce(requests[i].partitions)
    /\ (ReturnedSnapshot /\ WellFormedReplies) =>
          \A t \in DOMAIN ret.details.Offsets :
              DOMAIN ret.details.Offsets[t] = UnionOf(t)

(***************************************************************************)
(* C23.  A topic that the members hold no partition of is not reconciled:   *)
(* when a topic appears in an assignment with zero partitions and in no     *)
(* other, no offset request is sent for it and it is not a key of the       *)
(* offsets map of the snapshot.                                             *)
(***************************************************************************)
\* the topics that appear in the assignment of some decoded member
Appearing == UNION {DOMAIN AssignmentsOf(i) : i \in Decodable}

C23_EmptyTopicNotReconciled ==
    \A t \in Appearing :
        UnionOf(t) = {} =>
            /\ \A i \in OffsetRequests : requests[i].topic # t
            /\ ReturnedSnapshot => t \notin DOMAIN ret.details.Offsets

(***************************************************************************)
(* The pairing loop of GetConsumerGroup (lines 136-181) on its own: a list  *)
(* of requested partitions and the two replies, whose entries may carry any *)
(* partition id.                                                            *)
(***************************************************************************)
\* the lists of partitions a topic may be requested with, repeated ids
\* included (line 89 appends)
RequestedLists == UNION {[1..n -> PartitionIds] : n \in 0..(MaxPartition + 1)}

\* the answered replies to a request of n partitions: no topic entry, or a
\* topic entry with at most n partition entries of any id
AnsweredReplies(n) ==
    {[err |-> FALSE, Topics |-> << >>]}
    \cup UNION {{[err |-> FALSE, Topics |-> <<[Partitions |-> es]>>] :
                    es \in [1..m -> [Partition : PartitionIds, Offset : OffsetSamples]]} :
                  m \in 0..n}

\* ... and those that list the requested partitions, or their reverse
OrderedReplies(ps) ==
    {r \in AnsweredReplies(Len(ps)) :
        Len(r.Topics) > 0 =>
            LET es == r.Topics[1].Partitions
            IN  \/ \A k \in 1..Len(es) : es[k].Partition = ps[k]
                \/ \A k \in 1..Len(es) : es[k].Partition = ps[Len(ps) + 1 - k]}

InitPair ==
    /\ OthersIdle
    /\ \E ps \in RequestedLists :
         \E o \in OrderedReplies(ps), e \in AnsweredReplies(Len(ps)) :
            call = [op |-> "pair", pc |-> "in", partitions |-> ps,
                    offsetResp |-> o, endOffsetResp |-> e,
                    panic |-> FALSE, offsets |-> EmptyMap]

\* lines 136-181
PairReplies ==
    /\ call.op = "pair"
    /\ call.pc = "in"
    /\ LET r == PairOffsets(call.partitions, 1, call.offsetResp,
                            call.endOffsetResp, EmptyMap)
       IN  call' = [call EXCEPT !.pc = "out", !.panic = r.panic,
                                !.offsets = r.val]
    /\ UNCHANGED <<inspectVars, calc, del>>

NextPair == PairReplies

SpecPair == InitPair /\ [][NextPair]_vars

(***************************************************************************)
(* C24.  The replies are paired by position: for the i-th requested         *)
(* partition p, offsets[p].current is the offset of the i-th entry of the   *)
(* committed-offset reply and offsets[p].end the offset of the i-th entry   *)
(* of the latest-offset reply, whatever partition ids the entries carry     *)
(* (the requested partitions being distinct).  When both replies list the   *)
(* partitions in the requested order, every partition has the current and   *)
(* the end of its own entries.                                              *)
(***************************************************************************)
Paired == call.op = "pair" /\ call.pc = "out" /\ ~call.panic
InRequestedOrder(resp) ==
    \A k \in 1..Len(call.partitions) :
        resp.Topics[1].Partitions[k].Partition = call.partitions[k]

C25_FailedDecodeContributesNothing ==
    Truncated # {} =>
        /\ DOMAIN topicPartitions = Appearing
        /\ \A t \in Appearing : topicPartitions[t] = PartitionsFrom(1, Decodable, t)
        /\ \A i \in OffsetRequests :
              /\ requests[i].topic \in Appearing
              /\ requests[i].partitions = PartitionsFrom(1, Decodable, requests[i].topic)
        /\ ReturnedSnapshot => DOMAIN ret.details.Offsets \subseteq Appearing

C25_Witness ==
    /\ ReturnedSnapshot
    /\ Truncated # {}
    /\ Len(reported) = MaxMembers
    /\ OffsetRequests # {}
    /\ DOMAIN ret.details.Offsets # {}

\* the replies the broker gave, in the first call, to the requests of one kind
\* for topic t
LoggedReplies(api, t) ==
    {first.log[i].reply :
        i \in {k \in 1..Len(first.log) :
                 first.log[k].api = api /\ first.log[k].topic = t}}
\* both requests of topic t were answered
AnsweredBoth(t) ==
    \E f \in LoggedReplies("OffsetFetch", t), l \in LoggedReplies("ListOffsets", t) :
        ~f.err /\ ~l.err

(***************************************************************************)
(* C26.  The offsets map of the snapshot does not depend on the order in    *)
(* which the topics are reconciled.  With the replies of each topic fixed,  *)
(* the entry of a topic is there exactly when both of its own requests were *)
(* answered and is computed from its own two replies, whatever happened to  *)
(* the other topics; a call that visits the topics in another order returns *)
(* the same map.                                                            *)
(***************************************************************************)
C26_OrderIndependent ==
    (first.round \in {1, 2} /\ ReturnedSnapshot) =>
        /\ \A t \in DOMAIN topicPartitions :
              (t \in DOMAIN ret.details.Offsets) = AnsweredBoth(t)
        /\ DOMAIN ret.details.Offsets \subseteq DOMAIN topicPartitions
        /\ \A t \in DOMAIN ret.details.Offsets :
              \A f \in LoggedReplies("OffsetFetch", t),
                 l \in LoggedReplies("ListOffsets", t) :
                  ret.details.Offsets[t]
                      = PairOffsets(topicPartitions[t], 1, f, l, EmptyMap).val
        /\ first.round = 2 =>
              \A t \in Topics :
                  MapGet(ret.details.Offsets, t, EmptyMap)
                      = MapGet(first.ret.details.Offsets, t, EmptyMap)

C26_Witness ==
    /\ first.round = 2
    /\ ReturnedSnapshot
    /\ DOMAIN topicPartitions = Topics
    /\ Len(requests) >= 2 /\ Len(first.requests) >= 2
    /\ requests[2].topic # first.requests[2].topic
    /\ \E t \in Topics : ~AnsweredBoth(t)
    /\ \E t \in Topics : t \in DOMAIN ret.details.Offsets

(***************************************************************************)
(* Two GetConsumerGroup calls interleaved on one client.  What a call       *)
(* keeps between its requests are its local variables; a step of one call   *)
(* is a request with all the code up to the next request.  Each inspected   *)
(* group has one member, whose payload is absent or well-formed and assigns *)
(* at most one partition.                                                   *)
(***************************************************************************)
\* variant: the map is a field of the client, which the calls share
MakeMapShared(ofOtherCall) == ofOtherCall

\* lines 75 and 101: the maps of a call are made by the call
MakeMap(ofOtherCall) == EmptyMap

InterleavedDescribes ==
    {r \in DescribeReplies : Len(r.Groups) > 0 => r.Groups[1].NumMembers = 1}
InterleavedMembers ==
    UNION {{in \in MemberInputs(k, 1) : in.kind # "truncated"} : k \in 1..2}
InterleavedOffsetReplies(ps) ==
    {r \in OffsetReplies(ps) : r.err \/ PartitionEntries(r) = Len(ps)}

NewCall(g) ==
    [pc |-> "describe", groupID |-> g, desc |-> [err |-> FALSE, Groups |-> << >>],
     reported |-> << >>, members |-> << >>, topicPartitions |-> EmptyMap,
     todo |-> {}, topic |-> "", offsetResp |-> NoResp, offsets |-> EmptyMap,
     ret |-> [details |-> NilDetails, err |-> NoError], log |-> << >>]

InProgress(c) == c.pc \in {"offsets", "listOffsets"}

InitInterleaved ==
    /\ OthersIdle
    /\ \E g1 \in GroupIDs, g2 \in GroupIDs :
         call = [op |-> "Interleaved", calls |-> <<NewCall(g1), NewCall(g2)>>,
                 overlapped |-> FALSE]

\* lines 100-102 and 184-188 for the call c: the next topic, or the return
LoopOrReturnOf(c) ==
    IF c.todo = {}
    THEN [c EXCEPT !.pc = "done",
                   !.ret = [details |-> Details(c.desc.Groups[1].State, c.members,
                                                c.offsets),
                            err |-> NoError]]
    ELSE [c EXCEPT !.pc = "offsets"]

\* lines 56-101 for call i
DescribeGroupOf(i) ==
    /\ call.op = "Interleaved"
    /\ call.calls[i].pc = "describe"
    /\ \E reply \in InterleavedDescribes, in \in InterleavedMembers :
        LET c == [call.calls[i] EXCEPT !.desc = reply]
            other == call.calls[3 - i]
            failed(err) == [c EXCEPT !.pc = "done",
                                     !.ret = [details |-> NilDetails, err |-> err]]
            r == ParseMemberStep(in.member, << >>, MakeMap(other.topicPartitions))
        IN  call' = [call EXCEPT
                !.overlapped = @ \/ InProgress(other),
                !.calls[i] =
                    IF reply.err
                    THEN failed(Errorf("failed to describe consumer group", "", 0))
                    ELSE IF Len(reply.Groups) = 0
                    THEN failed(Errorf("group not found", c.groupID, 0))
                    ELSE IF reply.Groups[1].ErrorCode # 0
                    THEN failed(handleConsumerGroupError(reply.Groups[1].ErrorCode))
                    ELSE LoopOrReturnOf(
                             [c EXCEPT !.reported = <<in>>,
                                       !.members = r.members,
                                       !.topicPartitions = r.topicPartitions,
                                       !.todo = DOMAIN r.topicPartitions,
                                       !.offsets = MakeMap(other.offsets)])]
    /\ UNCHANGED <<inspectVars, calc, del>>

\* lines 102-113 for call i
OffsetFetchOf(i) ==
    /\ call.op = "Interleaved"
    /\ call.calls[i].pc = "offsets"
    /\ \E t \in call.calls[i].todo :
        \E reply \in InterleavedOffsetReplies(call.calls[i].topicPartitions[t]) :
            LET c == [call.calls[i] EXCEPT
                         !.log = Append(@, [api |-> "OffsetFetch", topic |-> t,
                                            reply |-> reply])]
            IN  call' = [call EXCEPT
                    !.overlapped = @ \/ InProgress(call.calls[3 - i]),
                    !.calls[i] =
                        IF reply.err
                        THEN LoopOrReturnOf([c EXCEPT !.todo = Remaining(@, t),
                                                      !.offsets = SkipTopic(@, t)])
                        ELSE [c EXCEPT !.pc = "listOffsets", !.topic = t,
                                       !.offsetResp = reply]]
    /\ UNCHANGED <<inspectVars, calc, del>>

\* lines 115-182 for call i
ListOffsetsOf(i) ==
    /\ call.op = "Interleaved"
    /\ call.calls[i].pc = "listOffsets"
    /\ \E reply \in InterleavedOffsetReplies(
                         call.calls[i].topicPartitions[call.calls[i].topic]) :
        LET t == call.calls[i].topic
            c == [call.calls[i] EXCEPT
                     !.log = Append(@, [api |-> "ListOffsets", topic |-> t,
                                        reply |-> reply]),
                     !.topic = "", !.offsetResp = NoResp]
            r == PairOffsets(c.topicPartitions[t], 1, call.calls[i].offsetResp,
                             reply, EmptyMap)
        IN  call' = [call EXCEPT
                !.overlapped = @ \/ InProgress(call.calls[3 - i]),
                !.calls[i] =
                    IF reply.err
                    THEN LoopOrReturnOf([c EXCEPT !.todo = Remaining(@, t),
                                                  !.offsets = SkipTopic(@, t)])
                    ELSE IF r.panic THEN [c EXCEPT !.pc = "panic"]
                    ELSE LoopOrReturnOf([c EXCEPT !.todo = Remaining(@, t),
                                                  !.offsets = MapPut(@, t, r.val)])]
    /\ UNCHANGED <<inspectVars, calc, del>>

NextInterleaved ==
    \/ \E i \in 1..2 : DescribeGroupOf(i)
    \/ \E i \in 1..2 : OffsetFetchOf(i)
    \/ \E i \in 1..2 : ListOffsetsOf(i)

SpecInterleaved == InitInterleaved /\ [][NextInterleaved]_vars

\* the replies call c got to its requests of one kind for topic t
RepliesTo(c, api, t) ==
    {c.log[k].reply : k \in {j \in 1..Len(c.log) :
                                 c.log[j].api = api /\ c.log[j].topic = t}}
\* what GetConsumerGroup returns for the replies call c got, when it is the
\* only call of the client
RunAlone(c) ==
    IF c.desc.err
    THEN [details |-> NilDetails,
          err |-> Errorf("failed to describe consumer group", "", 0)]
    ELSE IF Len(c.desc.Groups) = 0
    THEN [details |-> NilDetails, err |-> Errorf("group not found", c.groupID, 0)]
    ELSE IF c.desc.Groups[1].ErrorCode # 0
    THEN [details |-> NilDetails,
          err |-> handleConsumerGroupError(c.desc.Groups[1].ErrorCode)]
    ELSE LET r == ParseMemberStep(c.reported[1].member, << >>, EmptyMap)
             answered == {t \in DOMAIN r.topicPartitions :
                            \E f \in RepliesTo(c, "OffsetFetch", t),
                               l \in RepliesTo(c, "ListOffsets", t) :
                                ~f.err /\ ~l.err}
             entry(t) ==
                 PairOffsets(r.topicPartitions[t], 1,
                             CHOOSE f \in RepliesTo(c, "OffsetFetch", t) : TRUE,
                             CHOOSE l \in RepliesTo(c, "ListOffsets", t) : TRUE,
                             EmptyMap).val
         IN  [details |-> Details(c.desc.Groups[1].State, r.members,
                                  [t \in answered |-> entry(t)]),
              err |-> NoError]

\* the topics the member reported to call c is assigned
OwnTopics(c) ==
    IF c.reported = << >> THEN {}
    ELSE {c.reported[1].Topics[k].Topic : k \in 1..Len(c.reported[1].Topics)}

(***************************************************************************)
(* C27.  GetConsumerGroup calls share no mutable state.  Of two calls that  *)
(* are interleaved on one client, on the same group or on two groups, each  *)
(* returns what it returns for its own replies when it runs alone; its      *)
(* snapshot has no member but the one reported to it and no offsets entry   *)
(* but those of the topics of that member.                                  *)
(***************************************************************************)
C27_InterleavedCallsIndependent ==
    call.op = "Interleaved" =>
        \A i \in 1..2 :
            LET c == call.calls[i]
            IN  /\ c.pc # "panic"
                /\ c.pc = "done" =>
                      /\ c.ret = RunAlone(c)
                      /\ DOMAIN c.ret.details.Offsets \subseteq OwnTopics(c)
                      /\ \A k \in 1..Len(c.ret.details.Members) :
                            /\ k = 1
                            /\ c.ret.details.Members[k].ClientID
                                   = c.reported[1].member.ClientID

C27_Witness ==
    /\ call.op = "Interleaved"
    /\ call.overlapped
    /\ \A i \in 1..2 :
          /\ call.calls[i].pc = "done"
          /\ ~call.calls[i].ret.details.nil
          /\ Len(call.calls[i].ret.details.Members) = 1
          /\ DOMAIN call.calls[i].ret.details.Offsets # {}
    /\ call.calls[1].groupID # call.calls[2].groupID
    /\ DOMAIN call.calls[1].ret.details.Offsets
           # DOMAIN call.calls[2].ret.details.Offsets
    /\ call.calls[1].ret.details.Members[1].ClientID
           # call.calls[2].ret.details.Members[1].ClientID

(***************************************************************************)
(* The credential store (part_009): the keyring is the set of the names     *)
(* that hold a profile, the active profile is the content of a file.  Any   *)
(* sequence of Store, Delete and SetActiveProfile calls, from an empty      *)
(* keyring and no file; the keyring and the file operations do not fail.    *)
(***************************************************************************)
\* lines 29-51: the keyring after Store
Store(profileName, stored) ==
    stored \cup {IF profileName = "" THEN "default" ELSE profileName}

\* variant: Delete leaves the file of the active profile alone
DeleteKeepsActive(profileName, stored, file) ==
    LET name == IF profileName = "" THEN "default" ELSE profileName
    IN  IF name \notin stored
        THEN [err |-> Errorf("profile not found", name, 0),
              stored |-> stored, file |-> file]
        ELSE [err |-> NoError, stored |-> stored \ {name}, file |-> file]

\* lines 77-106: the keyring and the file after Delete, and the error
Delete(profileName, stored, file) ==
    LET name == IF profileName = "" THEN "default" ELSE profileName
    IN  IF name \notin stored
        THEN [err |-> Errorf("profile not found", name, 0),
              stored |-> stored, file |-> file]
        ELSE [err |-> NoError, stored |-> stored \ {name},
              file |-> IF GetActiveProfile(file) = name THEN << >> ELSE file]

\* the names a caller may pass
ProfileArguments == ProfileNames \cup {""}

\* last is the last call: its argument, its error and the active profile
\* before it; refused says that a SetActiveProfile call failed while a
\* profile other than "default" was active
InitCredentials ==
    /\ OthersIdle
    /\ call = [op |-> "credentials", stored |-> {}, file |-> << >>,
               last |-> [op |-> "", profileName |-> "", err |-> NoError,
                         active |-> "default"],
               refused |-> FALSE]

StoreProfile ==
    /\ call.op = "credentials"
    /\ \E profileName \in ProfileArguments :
         call' = [call EXCEPT
                     !.stored = Store(profileName, call.stored),
                     !.last = [op |-> "Store", profileName |-> profileName,
                               err |-> NoError,
                               active |-> GetActiveProfile(call.file)]]
    /\ UNCHANGED <<inspectVars, calc, del>>

DeleteProfile ==
    /\ call.op = "credentials"
    /\ \E profileName \in ProfileArguments :
         LET r == Delete(profileName, call.stored, call.file)
         IN  call' = [call EXCEPT
                         !.stored = r.stored,
                         !.file = r.file,
                         !.last = [op |-> "Delete", profileName |-> profileName,
                                   err |-> r.err,
                                   active |-> GetActiveProfile(call.file)]]
    /\ UNCHANGED <<inspectVars, calc, del>>

SwitchProfile ==
    /\ call.op = "credentials"
    /\ \E profileName \in ProfileArguments :
         LET r == SetActiveProfile(profileName, call.stored, call.file)
         IN  call' = [call EXCEPT
                         !.file = r.file,
                         !.last = [op |-> "SetActiveProfile",
                                   profileName |-> profileName, err |-> r.err,
                                   active |-> GetActiveProfile(call.file)],
                         !.refused = @ \/ (r.err # NoError
                                           /\ GetActiveProfile(call.file) # "default")]
    /\ UNCHANGED <<inspectVars, calc, del>>

NextCredentials == StoreProfile \/ DeleteProfile \/ SwitchProfile

SpecCredentials == InitCredentials /\ [][NextCredentials]_vars

(***************************************************************************)
(* C28.  After any sequence of Store, Delete and SetActiveProfile calls     *)
(* the name GetActiveProfile returns is "default" or the name of a profile  *)
(* the keyring holds.  SetActiveProfile of a profile that does not exist    *)
(* fails and leaves the active profile as it was; Delete of the active      *)
(* profile makes "default" the active profile.                              *)
(***************************************************************************)
C28_ActiveProfileExists ==
    call.op = "credentials" =>
        /\ \/ GetActiveProfile(call.file) = "default"
           \/ GetActiveProfile(call.file) \in call.stored
        /\ (call.last.op = "SetActiveProfile"
               /\ Named(call.last.profileName) \notin call.stored) =>
              /\ call.last.err # NoError
              /\ GetActiveProfile(call.file) = call.last.active
        /\ (call.last.op = "Delete" /\ call.last.err = NoError
               /\ Named(call.last.profileName) = call.last.active) =>
              /\ GetActiveProfile(call.file) = "default"
              /\ call.last.active \notin call.stored

C28_Witness ==
    /\ call.op = "credentials"
    /\ call.refused
    /\ call.last.op = "Delete"
    /\ call.last.err = NoError
    /\ call.last.active # "default"
    /\ call.last.profileName = call.last.active
    /\ call.stored # {}
    /\ call.file = << >>

(***************************************************************************)
(* A client that deletes a group and commits an offset of a group: one      *)
(* DeleteConsumerGroup call and one SetConsumerGroupOffsets call, in either *)
(* order, each with any reply                                               *)
(***************************************************************************)
InitWrites ==
    /\ InspectIdle
    /\ calc = NoCalc
    /\ del \in [pc : {"call"}, groupID : GroupIDs, reply : {NoDeleteReply},
                 err : {NoError}]
    /\ call \in [op : {"SetConsumerGroupOffsets"}, pc : {"call"},
                  groupID : GroupIDs, topic : Topics,
                  partition : PartitionIds, offset : 0..MaxOffset,
                  sent : {<< >>}, reply : {[err |-> FALSE, Topics |-> << >>]},
                  err : {NoError}]

NextWrites == DeleteConsumerGroup \/ SetConsumerGroupOffsets

SpecWrites == InitWrites /\ [][NextWrites]_vars

\* the replies that carry no status code
NoGroupListed(resp) == ~resp.err /\ Len(resp.Groups) = 0
NoPartitionListed(resp) ==
    ~resp.err /\ (Len(resp.Topics) = 0 \/ Len(resp.Topics[1].Partitions) = 0)

(***************************************************************************)
(* C29.  A reply without status entry is taken as success:                  *)
(* DeleteConsumerGroup returns nil when the delete reply lists no group,    *)
(* SetConsumerGroupOffsets returns nil when the commit reply lists no topic *)
(* or a topic without partition, after the request was sent.                *)
(***************************************************************************)
C29_NoStatusIsSuccess ==
    /\ (del.pc = "done" /\ NoGroupListed(del.reply)) => del.err = NoError
    /\ (call.op = "SetConsumerGroupOffsets" /\ call.pc = "done"
          /\ NoPartitionListed(call.reply)) =>
          /\ call.err = NoError
          /\ Len(call.sent) = 1

C29_Witness ==
    /\ del.pc = "done"
    /\ NoGroupListed(del.reply)
    /\ del.err = NoError
    /\ call.op = "SetConsumerGroupOffsets"
    /\ call.pc = "done"
    /\ NoPartitionListed(call.reply)
    /\ Len(call.reply.Topics) = 1
    /\ call.err = NoError

\* the ACL the call is to modify, and the ACL it is to put in its place (none
\* when the new permission is not a number)
OldAcl == call.sent[1].Entries[1]
NewAcls ==
    LET n == AclNumbers(call.resourceType, call.operation, call.newPermission)
    IN  IF n.err # NoError THEN {}
        ELSE {AclRequest("CreateACLs", n, call.resourceName, call.principal,
                         call.host).Entries[1]}
\* the ACLs of the cluster after the first k requests of the call, when the
\* ACL to modify was there and a request did what the call took its reply to
\* say: the delete request removed its ACL, a create request that was not the
\* failed one added its ACL
RECURSIVE AclsAfter(_)
AclsAfter(k) ==
    IF k = 0 THEN {OldAcl}
    ELSE IF call.sent[k].api = "DeleteACLs"
    THEN AclsAfter(k - 1) \ {call.sent[k].Entries[1]}
    ELSE IF k = 2 /\ ~Tolerated(call.createReply)
    THEN AclsAfter(k - 1)
    ELSE AclsAfter(k - 1) \cup {call.sent[k].Entries[1]}

(***************************************************************************)
(* C30.  ModifyAcl is not atomic.  When the delete step succeeded and the   *)
(* create step fails, the call returns the error of the create step and     *)
(* sends nothing after the failed create: the ACL it deleted is not created *)
(* again.  After the call the cluster has neither the ACL with the old      *)
(* permission nor the ACL with the new permission.                          *)
(***************************************************************************)
C30_NotAtomic ==
    (ModifyDone /\ CreateFailed) =>
        /\ call.err # NoError
        /\ call.sent[1].api = "DeleteACLs"
        /\ \A k \in 2..Len(call.sent) :
              /\ k = 2
              /\ call.sent[k].api = "CreateACLs"
              /\ call.sent[k].Entries[1] \in NewAcls
        /\ OldAcl \notin AclsAfter(Len(call.sent))
        /\ NewAcls \cap AclsAfter(Len(call.sent)) = {}

C30_Witness ==
    /\ ModifyDone
    /\ CreateFailed
    /\ call.deleteReply.Results = <<[ErrorCode |-> 0]>>
    /\ call.createReply.Results = <<[ErrorCode |-> 88]>>
    /\ Len(call.sent) = 2
    /\ call.sent[2].Entries[1] # OldAcl
    /\ AclsAfter(2) = {}
    /\ call.err # NoError

====
